---------------------------- MODULE Spec2Model ----------------------------
(***************************************************************************)
(* certmagic-s3: the lease-object lock protocol of the S3 storage facade   *)
(* (S3.Lock / S3.putLockFile / S3.Unlock), over an object store shared by  *)
(* several processes and one wall clock.                                   *)
(*                                                                         *)
(* Time is counted in ticks, Second ticks to the second, so that the       *)
(* whole-second RFC3339 lease body differs from the clock reading it was   *)
(* formatted from.  Strings are sequences of one-character strings.        *)
(***************************************************************************)
EXTENDS Integers, Sequences, FiniteSets, TLC

(* ------------------------------ bounds --------------------------------- *)

\* clock resolution: ticks to the second
Second == 2

\* the clock stops after MaxSeconds seconds
MaxSeconds == 19

MaxTime == MaxSeconds * Second

\* Lock, Unlock and Store calls begin, contexts are cancelled and the store
\* fails within the first MaxStart ticks
MaxStart == 3

\* Lock calls made in all
MaxCalls == 3

\* Unlock calls made in all
MaxUnlocks == 1

\* ticks a PutObject may take to land
MaxPutLatency == 1

\* ticks by which a step that is due may be late: a GetObject and the read of
\* its body take up to MaxLag ticks to be answered, and a time.Sleep may last
\* up to MaxLag ticks longer than it was asked to
MaxLag == 1

\* object-store failures injected in all
MaxFaults == 1

\* Store calls made in all
MaxStores == 1

\* contexts cancelled in all
MaxCancels == 1

\* Lock calls made in all where Store is called or callers may cancel
MaxCallsEnv == 2

\* loop iterations counted without a sleep between them
MaxRetry == 1

\* the largest payload byte value
MaxByte == 1

\* the longest payload, in bytes
MaxLen == 1
\* the largest secret key (0 is the all-zero key)
MaxKey == 2

\* the nonces crypto/rand can yield
MaxNonces == 2

\* Store and Delete calls and foreign writes made in all on the payload keys
MaxOps == 2

\* Load calls made on the payload keys
MaxLoads == 2

\* encode and decode calls made in all where the codec is on its own
MaxCodecOps == 2

\* the longest prefix and the longest key objName is applied to on its own
MaxNameLen == 2

\* Store calls, and Load calls, made on facades once they are provisioned
MaxProvisionedOps == 1

\* Store and Delete calls, and Load, Exists, List and Stat calls, and Lock
\* calls, made on a bucket that is listed, and failures of its object store
MaxDirStores == 2

MaxDirOps == 1

MaxDirLocks == 1

MaxDirFaults == 1

\* directives in a storage block
MaxDirectives == 3

\* Lock calls, and Unlock calls, made in all where several keys are locked
MaxKeyCalls == 2

MaxKeyUnlocks == 1

\* ... and they begin within the first MaxKeyStart ticks
MaxKeyStart == 1

\* failures of the object store there
MaxKeyFaults == 1

\* Lock calls, Load calls, faults and cancellations where the bodies that
\* GetObject opens are followed
MaxStreamCalls == 2

MaxStreamLoads == 1

MaxStreamFaults == 1

MaxStreamCancels == 1

\* the last tick at which a Load begins there
MaxStreamStart == 0

(* ------------------------- program constants --------------------------- *)

LockPollIntervalSeconds == 1

LockTimeoutSeconds == 15

LockExpirationSeconds == 120

LockPollInterval == LockPollIntervalSeconds * Second

LockTimeout == LockTimeoutSeconds * Second

LockExpiration == LockExpirationSeconds * Second

\* the encrypted codec's nonce length
NonceSize == 24

\* secretbox.Overhead: the length of the authenticator Seal adds
Overhead == 16

\* the length setupEncryption requires of a key that is not empty
KeySize == 32

\* S3.Prefix after UnmarshalCaddyfile's default
Prefix == <<"a", "c", "m", "e">>

(* ----------------------------- processes ------------------------------- *)

Procs == {"p1", "p2"}

None == "none"

\* the logical key the processes contend for
LockKey == <<"k">>

(* ---------------------------- object names ----------------------------- *)

RECURSIVE TrimLeft(_)
\* strings.TrimLeft(s, "/")
TrimLeft(s) ==
    IF s # <<>> /\ Head(s) = "/" THEN TrimLeft(Tail(s)) ELSE s

RECURSIVE TrimRight(_)
\* the trailing half of strings.Trim(s, "/")
TrimRight(s) ==
    IF s # <<>> /\ s[Len(s)] = "/" THEN TrimRight(SubSeq(s, 1, Len(s) - 1)) ELSE s

\* strings.Trim(s, "/")
Trim(s) == TrimRight(TrimLeft(s))

\* S3.objName on a facade whose Prefix is configured
objNameOf(configured, key) ==
    LET prefix == Trim(configured)
        k == TrimLeft(key)
    IN  IF prefix = <<>> THEN k ELSE prefix \o <<"/">> \o k

\* S3.objLockName on a facade whose Prefix is configured
objLockNameOf(configured, key) == objNameOf(configured, key) \o <<".", "l", "o", "c", "k">>

objName(key) == objNameOf(Prefix, key)

\* objLockName with one lease name for all keys under the prefix
objLockNameShared(key) == objName(<< >>) \o <<".", "l", "o", "c", "k">>

objLockName(key) == objName(key) \o <<".", "l", "o", "c", "k">>

\* the lease object of LockKey
Lease == objLockName(LockKey)

(* --------------------------- the lease body ---------------------------- *)

\* the object store's answer for a missing object (types.NoSuchKey)
NoSuchKey == <<"NoSuchKey">>

\* time.Now().Format(time.RFC3339): the clock reading cut to its whole second
Format(t) == <<"T", t \div Second>>

\* time.Parse(time.RFC3339, string(buf)): whether buf is a timestamp
ParseOk(buf) == Len(buf) = 2 /\ buf[1] = "T" /\ buf[2] \in Nat

\* ... and the instant it names, in ticks
ParseTime(buf) == buf[2] * Second

\* a.Before(b)
Before(a, b) == a < b

\* CleartextIO.ByteReader: the bytes as they are
ByteReader(buf) == buf

(* ------------------------------ the codecs ----------------------------- *)

\* the byte values payloads are made of
Byte == 0 .. MaxByte

\* the byte sequences of length n
RECURSIVE BytesOfLen(_)
BytesOfLen(n) ==
    IF n = 0 THEN {<< >>}
    ELSE {Append(m, b) : m \in BytesOfLen(n - 1), b \in Byte}

\* the payloads: every byte sequence of at most MaxLen bytes
Msgs == UNION {BytesOfLen(n) : n \in 0 .. MaxLen}

\* SecretBoxIO.SecretKey: 0 stands for the all-zero key
ZeroKey == 0

SecretKeys == 0 .. MaxKey

\* the codec values of S3.iowrap
CleartextIO == [kind |-> "CleartextIO", SecretKey |-> ZeroKey]

SecretBoxIO(key) == [kind |-> "SecretBoxIO", SecretKey |-> key]

\* SecretBoxIO.IsValid: the key is not all zero
IsValid(sb) == sb.SecretKey # ZeroKey

\* what crypto/rand can yield for a nonce
NonceIds == 1 .. MaxNonces

\* the NonceSize bytes of nonce n
NonceBytes(n) == [i \in 1 .. NonceSize |-> n]

\* a payload as a number, one for each payload
RECURSIVE MsgCode(_)
MsgCode(m) ==
    IF Len(m) = 0 THEN 1
    ELSE MsgCode(SubSeq(m, 1, Len(m) - 1)) * (MaxByte + 2) + m[Len(m)] + 1

\* one byte of the authenticator secretbox computes over a payload under a
\* key and a nonce: no two of (key, nonce, payload) share it
TagByte(msg, n, key) == 1000000 + (key * (MaxNonces + 1) + n) * 10000 + MsgCode(msg)

\* a payload byte encrypted under a key and a nonce
SealByte(b, n, key) == 1000 + (key * (MaxNonces + 1) + n) * (MaxByte + 1) + b

\* secretbox.Seal: out followed by the Overhead bytes of the authenticator
\* and the encrypted payload
Seal(out, msg, n, key) ==
    out \o [i \in 1 .. Overhead |-> TagByte(msg, n, key)]
        \o [i \in 1 .. Len(msg) |-> SealByte(msg[i], n, key)]

\* secretbox.Open: the payload, if box is what Seal makes of a payload under
\* this key and this nonce, and failure otherwise
Open(box, nonce, key) ==
    LET n == nonce[1]
        m == [i \in 1 .. Len(box) - Overhead |->
                 box[Overhead + i] - SealByte(0, n, key)]
    IN IF /\ Len(box) >= Overhead
          /\ n \in NonceIds
          /\ nonce = NonceBytes(n)
          /\ \A i \in DOMAIN m : m[i] \in Byte
          /\ box = Seal(<< >>, m, n, key)
         THEN [ok |-> TRUE, out |-> m]
         ELSE [ok |-> FALSE, out |-> << >>]

\* a Reader: the bytes it will yield, its length, and its pending error
Reader(r, l, err) == [r |-> r, l |-> l, err |-> err]

\* io.ReadAll on a Reader: a pending error comes out first, with no bytes
ReadAll(rd) ==
    IF rd.err # None THEN [buf |-> << >>, err |-> rd.err]
    ELSE [buf |-> rd.r, err |-> None]

\* CleartextIO.WrapReader: the stream as it is
CleartextWrapReader(r) == Reader(r, Len(r), None)

\* SecretBoxIO.ByteReader that leaves the nonce out of what it returns
SecretBoxByteReaderNoNonce(sb, n, msg) ==
    IF ~IsValid(sb)
      THEN Reader(<< >>, 0, "SecretBoxIO not properly initialized")
    ELSE LET out == Seal(<< >>, msg, n, sb.SecretKey)
         IN Reader(out, Len(out), None)

\* SecretBoxIO.ByteReader that reports the payload's length as the length of
\* the envelope
SecretBoxByteReaderPayloadLen(sb, n, msg) ==
    IF ~IsValid(sb)
      THEN Reader(<< >>, 0, "SecretBoxIO not properly initialized")
    ELSE LET out == Seal(NonceBytes(n), msg, n, sb.SecretKey)
         IN Reader(out, Len(msg), None)

\* SecretBoxIO.ByteReader with nonce n drawn: the envelope, nonce first
SecretBoxByteReader(sb, n, msg) ==
    IF ~IsValid(sb)
      THEN Reader(<< >>, 0, "SecretBoxIO not properly initialized")
    ELSE LET out == Seal(NonceBytes(n), msg, n, sb.SecretKey)
         IN Reader(out, Len(out), None)

\* SecretBoxIO.WrapReader that hands on the stream as it is when it cannot
\* open it
SecretBoxWrapReaderFallback(sb, allData) ==
    IF ~IsValid(sb)
      THEN Reader(<< >>, 0, "SecretBoxIO not properly initialized")
    ELSE IF Len(allData) = 0
      THEN Reader(<< >>, 0, None)
    ELSE IF Len(allData) < NonceSize
      THEN Reader(<< >>, 0, "insufficient data for decryption: missing nonce")
    ELSE LET nonce == SubSeq(allData, 1, NonceSize)
             encryptedData == SubSeq(allData, NonceSize + 1, Len(allData))
             opened == Open(encryptedData, nonce, sb.SecretKey)
         IN IF ~opened.ok
              THEN Reader(allData, Len(allData), None)
              ELSE Reader(opened.out, Len(opened.out), None)

\* SecretBoxIO.WrapReader that takes a stream of exactly NonceSize bytes for
\* one that is too short
SecretBoxWrapReaderShortBoundary(sb, allData) ==
    IF ~IsValid(sb)
      THEN Reader(<< >>, 0, "SecretBoxIO not properly initialized")
    ELSE IF Len(allData) = 0
      THEN Reader(<< >>, 0, None)
    ELSE IF Len(allData) <= NonceSize
      THEN Reader(<< >>, 0, "insufficient data for decryption: missing nonce")
    ELSE LET nonce == SubSeq(allData, 1, NonceSize)
             encryptedData == SubSeq(allData, NonceSize + 1, Len(allData))
             opened == Open(encryptedData, nonce, sb.SecretKey)
         IN IF ~opened.ok
              THEN Reader(<< >>, 0, "decryption failed: invalid key or corrupted data")
              ELSE Reader(opened.out, Len(opened.out), None)

\* SecretBoxIO.WrapReader that looks at the stream before it looks at its key:
\* an empty stream is an empty result whatever the key
SecretBoxWrapReaderEmptyFirst(sb, allData) ==
    IF Len(allData) = 0
      THEN Reader(<< >>, 0, None)
    ELSE IF ~IsValid(sb)
      THEN Reader(<< >>, 0, "SecretBoxIO not properly initialized")
    ELSE IF Len(allData) < NonceSize
      THEN Reader(<< >>, 0, "insufficient data for decryption: missing nonce")
    ELSE LET nonce == SubSeq(allData, 1, NonceSize)
             encryptedData == SubSeq(allData, NonceSize + 1, Len(allData))
             opened == Open(encryptedData, nonce, sb.SecretKey)
         IN IF ~opened.ok
              THEN Reader(<< >>, 0, "decryption failed: invalid key or corrupted data")
              ELSE Reader(opened.out, Len(opened.out), None)

\* SecretBoxIO.WrapReader without the case of the empty stream
SecretBoxWrapReaderNoEmptyCase(sb, allData) ==
    IF ~IsValid(sb)
      THEN Reader(<< >>, 0, "SecretBoxIO not properly initialized")
    ELSE IF Len(allData) < NonceSize
      THEN Reader(<< >>, 0, "insufficient data for decryption: missing nonce")
    ELSE LET nonce == SubSeq(allData, 1, NonceSize)
             encryptedData == SubSeq(allData, NonceSize + 1, Len(allData))
             opened == Open(encryptedData, nonce, sb.SecretKey)
         IN IF ~opened.ok
              THEN Reader(<< >>, 0, "decryption failed: invalid key or corrupted data")
              ELSE Reader(opened.out, Len(opened.out), None)

\* SecretBoxIO.WrapReader on a stream read to its end
SecretBoxWrapReader(sb, allData) ==
    IF ~IsValid(sb)
      THEN Reader(<< >>, 0, "SecretBoxIO not properly initialized")
    ELSE IF Len(allData) = 0
      THEN Reader(<< >>, 0, None)
    ELSE IF Len(allData) < NonceSize
      THEN Reader(<< >>, 0, "insufficient data for decryption: missing nonce")
    ELSE LET nonce == SubSeq(allData, 1, NonceSize)
             encryptedData == SubSeq(allData, NonceSize + 1, Len(allData))
             opened == Open(encryptedData, nonce, sb.SecretKey)
         IN IF ~opened.ok
              THEN Reader(<< >>, 0, "decryption failed: invalid key or corrupted data")
              ELSE Reader(opened.out, Len(opened.out), None)

\* s3.iowrap.ByteReader, with nonce n at hand should the codec draw one
EncodeWith(io, n, msg) ==
    IF io.kind = "CleartextIO" THEN Reader(ByteReader(msg), Len(msg), None)
    ELSE SecretBoxByteReader(io, n, msg)

\* s3.iowrap.WrapReader
DecodeWith(io, data) ==
    IF io.kind = "CleartextIO" THEN CleartextWrapReader(data)
    ELSE SecretBoxWrapReader(io, data)

\* whether the codec draws a nonce when it encodes
DrawsNonce(io) == io.kind = "SecretBoxIO" /\ IsValid(io)

(* ------------------------------- state --------------------------------- *)

VARIABLES
    now,        \* the shared wall clock, in ticks
    store,      \* the bucket: object name -> body, for the objects that exist
    pc,         \* where each process is: "idle", "get", "sleep", "put"
    startedAt,  \* Lock's startedAt
    timer,      \* when the running time.Sleep is over / the running PutObject has landed
    lockData,   \* putLockFile's lockData, formatted and not yet written
    ctxDone,    \* the context of the running Lock call is cancelled
    res,        \* what the process's last Lock call returned
    ures,       \* what the process's last Unlock call returned
    budget,     \* calls and failures still to come
    obs,        \* what the Lock call's last successful read found
    retry,      \* failed reads since the call's last sleep (or its start)
    held,       \* the process was told it holds the lock and has not unlocked since
    lastWriter, \* whose lease write landed last and still stands
    writtenAt,  \* when the lease object was last written
    removed,    \* whose lease the last Unlock removed
    after,      \* after[b]: holders whose lease write landed before b's call began
    iowrap,     \* the codec of each process's facade
    out,        \* what the process's last Store, Load, Delete or codec call gave
    rand,       \* the nonces crypto/rand has yielded
    last        \* object name -> the payload, codec and time of the Store that wrote it
                \* last (or, where several keys are locked, the key, caller and time of
                \* the Lock that did)

codecVars == <<iowrap, out, rand, last>>

vars == <<now, store, pc, startedAt, timer, lockData, ctxDone, res, ures, budget,
          obs, retry, held, lastWriter, writtenAt, removed, after, iowrap, out,
          rand, last>>

(* --------------------------- the object store -------------------------- *)

\* the bucket with object name holding body
PutObject(s, name, body) ==
    [o \in DOMAIN s \cup {name} |-> IF o = name THEN body ELSE s[o]]

\* the bucket without object name; removing a missing object is no error
DeleteObject(s, name) == [o \in DOMAIN s \ {name} |-> s[o]]

\* whether GetObject finds the object
Exists(s, name) == name \in DOMAIN s

\* GetObject's answer: the body, or NoSuchKey
GetObject(s, name) == IF Exists(s, name) THEN s[name] ELSE NoSuchKey

\* the result of a facade or codec call: the call, its input, its error and
\* the bytes it gave
Result(op, in, err, buf) == [op |-> op, in |-> in, err |-> err, buf |-> buf]

NoResult == Result(None, << >>, None, << >>)

(* -------------------------------- Init --------------------------------- *)

InitProcs ==
    /\ now = 0
    /\ store = << >>
    /\ pc = [p \in Procs |-> "idle"]
    /\ startedAt = [p \in Procs |-> 0]
    /\ timer = [p \in Procs |-> 0]
    /\ lockData = [p \in Procs |-> << >>]
    /\ ctxDone = [p \in Procs |-> FALSE]
    /\ res = [p \in Procs |-> None]
    /\ ures = [p \in Procs |-> None]
    /\ obs = [p \in Procs |-> None]
    /\ retry = [p \in Procs |-> 0]
    /\ held = [p \in Procs |-> FALSE]
    /\ lastWriter = None
    /\ writtenAt = 0
    /\ removed = None
    /\ after = [p \in Procs |-> {}]
    /\ out = [p \in Procs |-> NoResult]
    /\ rand = {}
    /\ last = << >>

\* a reliable object store, callers that never cancel
Init ==
    /\ InitProcs
    /\ iowrap = [p \in Procs |-> CleartextIO]
    /\ budget = [calls |-> MaxCalls, unlocks |-> MaxUnlocks, faults |-> 0,
                 cancels |-> 0, stores |-> 0]

(* ------------------------------- Lock ---------------------------------- *)

\* Lock's entry: startedAt := time.Now()
LockCall(p) ==
    /\ pc[p] = "idle"
    /\ budget.calls > 0
    /\ now <= MaxStart
    /\ budget' = [budget EXCEPT !.calls = @ - 1]
    /\ pc' = [pc EXCEPT ![p] = "get"]
    /\ startedAt' = [startedAt EXCEPT ![p] = now]
    /\ res' = [res EXCEPT ![p] = None]
    /\ obs' = [obs EXCEPT ![p] = None]
    /\ retry' = [retry EXCEPT ![p] = 0]
    /\ ctxDone' = [ctxDone EXCEPT ![p] = FALSE]
    /\ after' = [after EXCEPT ![p] =
                    {a \in Procs \ {p} : held[a] /\ lastWriter = a}]
    /\ timer' = [timer EXCEPT ![p] = now]
    /\ UNCHANGED <<now, store, lockData, ures, held, lastWriter, writtenAt, removed>>
    /\ UNCHANGED codecVars

\* LockDecision with a missing lease waited for instead of written
LockDecisionAbsentWaits(got, t, started) ==
    IF got = NoSuchKey
      THEN IF Before(started + LockTimeout, t) THEN "timeout" ELSE "sleep"
    ELSE IF ~ParseOk(got) THEN "put"
    ELSE IF Before(ParseTime(got) + LockTimeout, t) THEN "put"
    ELSE IF Before(started + LockTimeout, t) THEN "timeout"
    ELSE "sleep"

\* LockDecision with the call's own budget taken from LockExpiration
LockDecisionLongBudget(got, t, started) ==
    IF got = NoSuchKey THEN "put"
    ELSE IF ~ParseOk(got) THEN "put"
    ELSE IF Before(ParseTime(got) + LockTimeout, t) THEN "put"
    ELSE IF Before(started + LockExpiration, t) THEN "timeout"
    ELSE "sleep"

\* LockDecision with a lease counted as expired only after LockExpiration
LockDecisionStaleAfterExpiration(got, t, started) ==
    IF got = NoSuchKey THEN "put"
    ELSE IF ~ParseOk(got) THEN "put"
    ELSE IF Before(ParseTime(got) + LockExpiration, t) THEN "put"
    ELSE IF Before(started + LockTimeout, t) THEN "timeout"
    ELSE "sleep"

\* LockDecision with an unparsable lease waited on as if it were live
LockDecisionKeepsUnparsable(got, t, started) ==
    IF got = NoSuchKey THEN "put"
    ELSE IF ~ParseOk(got)
      THEN IF Before(started + LockTimeout, t) THEN "timeout" ELSE "sleep"
    ELSE IF Before(ParseTime(got) + LockTimeout, t) THEN "put"
    ELSE IF Before(started + LockTimeout, t) THEN "timeout"
    ELSE "sleep"

\* LockDecision that looks at the call's own deadline before it looks at
\* the lease's age
LockDecisionDeadlineFirst(got, t, started) ==
    IF got = NoSuchKey THEN "put"
    ELSE IF ~ParseOk(got) THEN "put"
    ELSE IF Before(started + LockTimeout, t) THEN "timeout"
    ELSE IF Before(ParseTime(got) + LockTimeout, t) THEN "put"
    ELSE "sleep"

\* what one iteration of Lock's loop decides from GetObject's answer got,
\* at clock reading t, in a call that began at started:
\*   "put"     the lease is missing, unparsable or expired: putLockFile
\*   "timeout" the lease is live and the call's own budget is spent
\*   "sleep"   the lease is live: time.Sleep(LockPollInterval), then again
LockDecision(got, t, started) ==
    IF got = NoSuchKey THEN "put"
    ELSE IF ~ParseOk(got) THEN "put"
    ELSE IF Before(ParseTime(got) + LockTimeout, t) THEN "put"
    ELSE IF Before(started + LockTimeout, t) THEN "timeout"
    ELSE "sleep"

\* the loop is about to call GetObject: at entry, after a failed read, or
\* with its sleep over
AtGetObject(p) == pc[p] = "get" \/ (pc[p] = "sleep" /\ now >= timer[p])

\* how the lease read looks to a caller at clock reading t
Looks(got, t) ==
    IF got = NoSuchKey THEN "absent"
    ELSE IF Len(got) # 2 \/ got[1] # "T" THEN "garbage"
    ELSE IF got[2] * Second + LockTimeout < t THEN "stale"
    ELSE "live"

\* a call that has held result.Body: the call, its key, its error, the
\* bytes of the body and how many bodies it has open
Stream(op, in, err, buf, open) ==
    [op |-> op, in |-> in, err |-> err, buf |-> buf, open |-> open]

\* the bodies caller p has open
OpenBodies(p) == IF "open" \in DOMAIN out[p] THEN out[p].open ELSE 0

\* the rest of an iteration of Lock's loop once GetObject's answer got is in
\* hand: the clock is read (the readings of the expiry test and of the
\* deadline test, which no call separates, are one reading), and the call
\* goes on to putLockFile, returns the acquisition-failed error or sleeps
Decide(p, got) ==
    LET d == LockDecision(got, now, startedAt[p])
    IN
        /\ pc' = [pc EXCEPT ![p] =
                     CASE d = "put" -> "put" [] d = "sleep" -> "sleep" [] OTHER -> "idle"]
        /\ lockData' = [lockData EXCEPT ![p] = IF d = "put" THEN Format(now) ELSE << >>]
        /\ res' = [res EXCEPT ![p] = IF d = "timeout" THEN "timeout" ELSE @]
        /\ timer' = [timer EXCEPT ![p] =
                        CASE d = "sleep" -> now + LockPollInterval
                          [] d = "put" -> now + MaxPutLatency
                          [] OTHER -> 0]
        /\ startedAt' = [startedAt EXCEPT ![p] = IF d = "timeout" THEN 0 ELSE @]
        /\ obs' = [obs EXCEPT ![p] = Looks(got, now)]
        /\ retry' = [retry EXCEPT ![p] = IF d = "sleep" THEN 0 ELSE @]

\* an iteration of Lock's loop whose GetObject answers NoSuchKey: the lease
\* is not in the bucket now, no body comes with the error, and the call
\* holds the answer
LockGetObjectNoSuchKey(p) ==
    /\ AtGetObject(p)
    /\ ~ctxDone[p]
    /\ ~Exists(store, Lease)
    /\ pc' = [pc EXCEPT ![p] = "nokey"]
    /\ UNCHANGED <<now, store, startedAt, timer, lockData, ctxDone, res, ures, budget,
                   obs, retry, held, lastWriter, writtenAt, removed, after>>
    /\ UNCHANGED codecVars

\* the call that holds NoSuchKey enters putLockFile, which reads the clock
\* for the lease it will send, whatever has become of the bucket since
\* GetObject answered and whether or not the context is still live
LockNoSuchKey(p) ==
    /\ pc[p] = "nokey"
    /\ Decide(p, NoSuchKey)
    /\ UNCHANGED <<now, store, ctxDone, ures, budget, held, lastWriter,
                   writtenAt, removed, after>>
    /\ UNCHANGED codecVars

\* an iteration of Lock's loop whose GetObject succeeds: the answer is the
\* lease as it is in the bucket now, result.Body is open, and the call waits
\* for the body (at records when the lease that was read had been written)
LockGetObject(p) ==
    /\ AtGetObject(p)
    /\ ~ctxDone[p]
    /\ Exists(store, Lease)
    /\ pc' = [pc EXCEPT ![p] = "read"]
    /\ out' = [out EXCEPT ![p] =
                  [op |-> "Lock", in |-> LockKey, err |-> None, buf |-> store[Lease],
                   open |-> OpenBodies(p) + 1, at |-> writtenAt]]
    /\ UNCHANGED <<now, store, startedAt, timer, lockData, ctxDone, res, ures, budget,
                   obs, retry, held, lastWriter, writtenAt, removed, after,
                   iowrap, rand, last>>

\* LockReadAllFails with the continue taken before the body is closed
LockReadAllFailsLeavesOpen(p) ==
    /\ pc[p] = "read"
    /\ ctxDone[p] \/ (budget.faults > 0 /\ now <= MaxStart)
    /\ budget' = IF ctxDone[p] THEN budget ELSE [budget EXCEPT !.faults = @ - 1]
    /\ out' = [out EXCEPT ![p] =
                  Stream("Lock", LockKey, "read", << >>, OpenBodies(p))]
    /\ pc' = [pc EXCEPT ![p] = "get"]
    /\ retry' = [retry EXCEPT ![p] = IF @ < MaxRetry THEN @ + 1 ELSE @]
    /\ timer' = [timer EXCEPT ![p] = IF ctxDone[p] THEN 0 ELSE now]
    /\ UNCHANGED <<now, store, startedAt, lockData, ctxDone, res, ures,
                   obs, held, lastWriter, writtenAt, removed, after,
                   iowrap, rand, last>>

\* io.ReadAll(result.Body) fails (the transport breaks, or the context is
\* cancelled): the body is closed and the loop continues at once
LockReadAllFails(p) ==
    /\ pc[p] = "read"
    /\ ctxDone[p] \/ (budget.faults > 0 /\ now <= MaxStart)
    /\ budget' = IF ctxDone[p] THEN budget ELSE [budget EXCEPT !.faults = @ - 1]
    /\ out' = [out EXCEPT ![p] =
                  Stream("Lock", LockKey, "read", << >>, OpenBodies(p) - 1)]
    /\ pc' = [pc EXCEPT ![p] = "get"]
    /\ retry' = [retry EXCEPT ![p] = IF @ < MaxRetry THEN @ + 1 ELSE @]
    /\ timer' = [timer EXCEPT ![p] = IF ctxDone[p] THEN 0 ELSE now]
    /\ UNCHANGED <<now, store, startedAt, lockData, ctxDone, res, ures,
                   obs, held, lastWriter, writtenAt, removed, after,
                   iowrap, rand, last>>

\* LockReadAll that removes the lease it waited on when it gives up
LockReadAllClearsOnTimeout(p) ==
    /\ pc[p] = "read"
    /\ ~ctxDone[p]
    /\ Decide(p, out[p].buf)
    /\ out' = [out EXCEPT ![p] =
                  Stream("Lock", LockKey, None, << >>, OpenBodies(p) - 1)]
    /\ store' = IF LockDecision(out[p].buf, now, startedAt[p]) = "timeout"
                  THEN DeleteObject(store, Lease) ELSE store
    /\ UNCHANGED <<now, ctxDone, ures, budget, held, lastWriter,
                   writtenAt, removed, after, iowrap, rand, last>>

\* io.ReadAll(result.Body) succeeds: the body is closed, the clock is read
\* and the iteration decides from the bytes GetObject answered with,
\* whatever has become of the lease in the bucket since
LockReadAll(p) ==
    /\ pc[p] = "read"
    /\ ~ctxDone[p]
    /\ Decide(p, out[p].buf)
    /\ out' = [out EXCEPT ![p] =
                  Stream("Lock", LockKey, None, << >>, OpenBodies(p) - 1)]
    /\ UNCHANGED <<now, store, ctxDone, ures, budget, held, lastWriter,
                   writtenAt, removed, after, iowrap, rand, last>>

\* putLockFile as a conditional write: refused when a lease is there
putLockFileIfAbsent(p) ==
    /\ pc[p] = "put"
    /\ ~ctxDone[p]
    /\ IF Exists(store, Lease)
         THEN /\ res' = [res EXCEPT ![p] = "puterr"]
              /\ UNCHANGED <<store, held, lastWriter, writtenAt, after>>
         ELSE /\ store' = PutObject(store, Lease, lockData[p])
              /\ res' = [res EXCEPT ![p] = "ok"]
              /\ held' = [held EXCEPT ![p] = TRUE]
              /\ lastWriter' = p
              /\ writtenAt' = now
              /\ after' = [b \in Procs |-> after[b] \ {p}]
    /\ pc' = [pc EXCEPT ![p] = "idle"]
    /\ lockData' = [lockData EXCEPT ![p] = << >>]
    /\ timer' = [timer EXCEPT ![p] = 0]
    /\ startedAt' = [startedAt EXCEPT ![p] = 0]
    /\ UNCHANGED <<now, ctxDone, ures, budget, obs, retry, removed>>
    /\ UNCHANGED codecVars

\* putLockFile's PutObject lands and Lock returns its nil error
putLockFile(p) ==
    /\ pc[p] = "put"
    /\ ~ctxDone[p]
    /\ store' = PutObject(store, Lease, lockData[p])
    /\ pc' = [pc EXCEPT ![p] = "idle"]
    /\ res' = [res EXCEPT ![p] = "ok"]
    /\ held' = [held EXCEPT ![p] = TRUE]
    /\ lastWriter' = p
    /\ writtenAt' = now
    /\ after' = [b \in Procs |-> after[b] \ {p}]
    /\ lockData' = [lockData EXCEPT ![p] = << >>]
    /\ timer' = [timer EXCEPT ![p] = 0]
    /\ startedAt' = [startedAt EXCEPT ![p] = 0]
    /\ UNCHANGED <<now, ctxDone, ures, budget, obs, retry, removed>>
    /\ UNCHANGED codecVars

\* GetObjectFails with the error handed to the caller
GetObjectFailsReturns(p) ==
    /\ AtGetObject(p)
    /\ ctxDone[p] \/ (budget.faults > 0 /\ now <= MaxStart)
    /\ budget' = IF ctxDone[p] THEN budget ELSE [budget EXCEPT !.faults = @ - 1]
    /\ pc' = [pc EXCEPT ![p] = "idle"]
    /\ res' = [res EXCEPT ![p] = "geterr"]
    /\ retry' = [retry EXCEPT ![p] = IF @ < MaxRetry THEN @ + 1 ELSE @]
    /\ timer' = [timer EXCEPT ![p] = 0]
    /\ startedAt' = [startedAt EXCEPT ![p] = 0]
    /\ UNCHANGED <<now, store, lockData, ctxDone, ures, obs,
                   held, lastWriter, writtenAt, removed, after>>
    /\ UNCHANGED codecVars

\* GetObject fails with an error that is not NoSuchKey (a transport error, or
\* the context is cancelled): the loop continues at once
GetObjectFails(p) ==
    /\ AtGetObject(p)
    /\ ctxDone[p] \/ (budget.faults > 0 /\ now <= MaxStart)
    /\ budget' = IF ctxDone[p] THEN budget ELSE [budget EXCEPT !.faults = @ - 1]
    /\ pc' = [pc EXCEPT ![p] = "get"]
    /\ retry' = [retry EXCEPT ![p] = IF @ < MaxRetry THEN @ + 1 ELSE @]
    /\ timer' = [timer EXCEPT ![p] = IF ctxDone[p] THEN 0 ELSE now]
    /\ UNCHANGED <<now, store, startedAt, lockData, ctxDone, res, ures, obs,
                   held, lastWriter, writtenAt, removed, after>>
    /\ UNCHANGED codecVars

\* putLockFileFails with the error of PutObject dropped: Lock returns nil
putLockFileFailsIgnored(p) ==
    /\ pc[p] = "put"
    /\ ctxDone[p] \/ (budget.faults > 0 /\ now <= MaxStart)
    /\ budget' = IF ctxDone[p] THEN budget ELSE [budget EXCEPT !.faults = @ - 1]
    /\ pc' = [pc EXCEPT ![p] = "idle"]
    /\ res' = [res EXCEPT ![p] = "ok"]
    /\ held' = [held EXCEPT ![p] = TRUE]
    /\ lockData' = [lockData EXCEPT ![p] = << >>]
    /\ timer' = [timer EXCEPT ![p] = 0]
    /\ startedAt' = [startedAt EXCEPT ![p] = 0]
    /\ UNCHANGED <<now, store, ctxDone, ures, obs, retry, lastWriter,
                   writtenAt, removed, after>>
    /\ UNCHANGED codecVars

\* putLockFile's PutObject fails and Lock returns its error
putLockFileFails(p) ==
    /\ pc[p] = "put"
    /\ ctxDone[p] \/ (budget.faults > 0 /\ now <= MaxStart)
    /\ budget' = IF ctxDone[p] THEN budget ELSE [budget EXCEPT !.faults = @ - 1]
    /\ pc' = [pc EXCEPT ![p] = "idle"]
    /\ res' = [res EXCEPT ![p] = "puterr"]
    /\ lockData' = [lockData EXCEPT ![p] = << >>]
    /\ timer' = [timer EXCEPT ![p] = 0]
    /\ startedAt' = [startedAt EXCEPT ![p] = 0]
    /\ UNCHANGED <<now, store, ctxDone, ures, obs, retry, held, lastWriter,
                   writtenAt, removed, after>>
    /\ UNCHANGED codecVars

\* the caller cancels the context it gave to Lock
Cancel(p) ==
    /\ pc[p] # "idle"
    /\ ~ctxDone[p]
    /\ budget.cancels > 0
    /\ now <= MaxStart
    /\ budget' = [budget EXCEPT !.cancels = @ - 1]
    /\ ctxDone' = [ctxDone EXCEPT ![p] = TRUE]
    /\ UNCHANGED <<now, store, pc, startedAt, timer, lockData, res, ures, obs,
                   retry, held, lastWriter, writtenAt, removed, after>>
    /\ UNCHANGED codecVars

(* ------------------------------ Unlock --------------------------------- *)

\* Unlock that deletes only a lease the caller wrote
UnlockIfOwner(p) ==
    /\ pc[p] = "idle"
    /\ budget.unlocks > 0
    /\ now <= MaxStart
    /\ budget' = [budget EXCEPT !.unlocks = @ - 1]
    /\ ures' = [ures EXCEPT ![p] = "ok"]
    /\ held' = [held EXCEPT ![p] = FALSE]
    /\ IF lastWriter = p
         THEN /\ store' = DeleteObject(store, Lease)
              /\ lastWriter' = None
              /\ writtenAt' = 0
              /\ removed' = p
         ELSE /\ removed' = "nothing"
              /\ UNCHANGED <<store, lastWriter, writtenAt>>
    /\ UNCHANGED <<now, pc, startedAt, timer, lockData, ctxDone, res, obs, retry,
                   after>>
    /\ UNCHANGED codecVars

\* Unlock that reports a missing lease as an error
UnlockMustExist(p) ==
    /\ pc[p] = "idle"
    /\ budget.unlocks > 0
    /\ now <= MaxStart
    /\ budget' = [budget EXCEPT !.unlocks = @ - 1]
    /\ store' = DeleteObject(store, Lease)
    /\ ures' = [ures EXCEPT ![p] = IF Exists(store, Lease) THEN "ok" ELSE "err"]
    /\ held' = [held EXCEPT ![p] = FALSE]
    /\ lastWriter' = None
    /\ writtenAt' = 0
    /\ removed' = IF ~Exists(store, Lease) THEN "nothing"
                  ELSE IF lastWriter = None THEN "other" ELSE lastWriter
    /\ UNCHANGED <<now, pc, startedAt, timer, lockData, ctxDone, res, obs, retry,
                   after>>
    /\ UNCHANGED codecVars

\* Unlock: DeleteObject on the lease name, whoever wrote it
Unlock(p) ==
    /\ pc[p] = "idle"
    /\ budget.unlocks > 0
    /\ now <= MaxStart
    /\ budget' = [budget EXCEPT !.unlocks = @ - 1]
    /\ store' = DeleteObject(store, Lease)
    /\ ures' = [ures EXCEPT ![p] = "ok"]
    /\ held' = [held EXCEPT ![p] = FALSE]
    /\ lastWriter' = None
    /\ writtenAt' = 0
    /\ removed' = IF ~Exists(store, Lease) THEN "nothing"
                  ELSE IF lastWriter = None THEN "other" ELSE lastWriter
    /\ UNCHANGED <<now, pc, startedAt, timer, lockData, ctxDone, res, obs, retry,
                   after>>
    /\ UNCHANGED codecVars

\* Unlock whose DeleteObject fails: Unlock returns the error, and the lease
\* is as it was
UnlockFails(p) ==
    /\ pc[p] = "idle"
    /\ budget.unlocks > 0
    /\ budget.faults > 0
    /\ now <= MaxStart
    /\ budget' = [budget EXCEPT !.unlocks = @ - 1, !.faults = @ - 1]
    /\ ures' = [ures EXCEPT ![p] = "delerr"]
    /\ UNCHANGED <<now, store, pc, startedAt, timer, lockData, ctxDone, res, obs,
                   retry, held, lastWriter, writtenAt, removed, after>>
    /\ UNCHANGED codecVars

(* ------------------------------- Store --------------------------------- *)

\* the logical keys Store is called with: the one whose object name is the
\* lease's
StoreKeys == {LockKey \o <<".", "l", "o", "c", "k">>}

\* the values Store is called with
StoreValues == {<< >>, <<"x">>}

\* a nonce source that hands every encode call the same nonce
DrawsFixed(io) ==
    IF DrawsNonce(io)
      THEN {n \in NonceIds : \A m \in NonceIds : n <= m}
      ELSE {0}

\* the nonce an encode call of codec io is handed by crypto/rand: one it has
\* not yielded before (which one is immaterial, nonces being told apart only
\* by being equal or not, so the least unused stands for it), or 0 where the
\* codec draws none
Draws(io) ==
    IF DrawsNonce(io)
      THEN {n \in NonceIds \ rand : \A m \in NonceIds \ rand : n <= m}
      ELSE {0}

\* Store that encodes and writes an empty value as it does any other
StoreAnyValue(p, key, value) ==
    /\ pc[p] = "idle"
    /\ budget.stores > 0
    /\ now <= MaxStart
    /\ budget' = [budget EXCEPT !.stores = @ - 1]
    /\ \E n \in Draws(iowrap[p]) :
         LET r == EncodeWith(iowrap[p], n, value)
             body == ReadAll(r)
         IN IF body.err # None
              THEN /\ out' = [out EXCEPT ![p] = Result("Store", key, body.err, << >>)]
                   /\ UNCHANGED <<store, lastWriter, writtenAt, rand, last>>
              ELSE /\ store' = PutObject(store, objName(key), body.buf)
                   /\ last' = PutObject(last, objName(key),
                                        [value |-> value, io |-> iowrap[p],
                                         at |-> now])
                   /\ rand' = IF DrawsNonce(iowrap[p]) THEN rand \cup {n} ELSE rand
                   /\ out' = [out EXCEPT ![p] = Result("Store", key, None, << >>)]
                   /\ lastWriter' = IF objName(key) = Lease THEN None ELSE lastWriter
                   /\ writtenAt' = IF objName(key) = Lease THEN now ELSE writtenAt
    /\ UNCHANGED <<now, pc, startedAt, timer, lockData, ctxDone, res, ures, obs,
                   retry, held, removed, after, iowrap>>

\* Store: an empty value is refused; any other is encoded by the facade's
\* codec and written under the key's object name
Store(p, key, value) ==
    /\ pc[p] = "idle"
    /\ budget.stores > 0
    /\ now <= MaxStart
    /\ budget' = [budget EXCEPT !.stores = @ - 1]
    /\ IF Len(value) = 0
         THEN /\ out' = [out EXCEPT ![p] =
                            Result("Store", key, "invalid key: cannot store empty value", << >>)]
              /\ UNCHANGED <<store, lastWriter, writtenAt, rand, last>>
         ELSE \E n \in Draws(iowrap[p]) :
                LET r == EncodeWith(iowrap[p], n, value)
                    body == ReadAll(r)
                IN IF body.err # None
                     THEN /\ out' = [out EXCEPT ![p] = Result("Store", key, body.err, << >>)]
                          /\ UNCHANGED <<store, lastWriter, writtenAt, rand, last>>
                     ELSE /\ store' = PutObject(store, objName(key), body.buf)
                          /\ last' = PutObject(last, objName(key),
                                               [value |-> value, io |-> iowrap[p],
                                                at |-> now])
                          /\ rand' = IF DrawsNonce(iowrap[p]) THEN rand \cup {n} ELSE rand
                          /\ out' = [out EXCEPT ![p] = Result("Store", key, None, << >>)]
                          /\ lastWriter' = IF objName(key) = Lease THEN None ELSE lastWriter
                          /\ writtenAt' = IF objName(key) = Lease THEN now ELSE writtenAt
    /\ UNCHANGED <<now, pc, startedAt, timer, lockData, ctxDone, res, ures, obs,
                   retry, held, removed, after, iowrap>>

(* --------------------------- Load and Delete --------------------------- *)

\* the logical keys payloads are stored under: two spellings of one key
PayloadKeys == {<<"c">>, <<"/", "c">>}

\* the values Store is called with on them: the empty one and two of the
\* longest
PayloadValues == {<< >>, [i \in 1 .. MaxLen |-> 0], [i \in 1 .. MaxLen |-> MaxByte]}

\* the codecs a facade is provisioned with: cleartext, or a 32-byte key that
\* is not all zero
FacadeCodecs == {CleartextIO} \cup {SecretBoxIO(k) : k \in SecretKeys \ {ZeroKey}}

\* Load that hands back the stored bytes without passing them to the codec
LoadRaw(p, key) ==
    /\ pc[p] = "idle"
    /\ budget.ops > 0
    /\ budget' = [budget EXCEPT !.ops = @ - 1]
    /\ out' = [out EXCEPT ![p] =
                  IF ~Exists(store, objName(key))
                    THEN Result("Load", key, "file does not exist", << >>)
                  ELSE Result("Load", key, None, store[objName(key)])]
    /\ UNCHANGED <<now, store, pc, startedAt, timer, lockData, ctxDone, res, ures,
                   obs, retry, held, lastWriter, writtenAt, removed, after,
                   iowrap, rand, last>>

\* Load: not-exist for a missing object, the decoding error if the codec
\* rejects the body, and otherwise what the codec makes of the body
Load(p, key) ==
    /\ pc[p] = "idle"
    /\ budget.ops > 0
    /\ budget' = [budget EXCEPT !.ops = @ - 1]
    /\ out' = [out EXCEPT ![p] =
                  IF ~Exists(store, objName(key))
                    THEN Result("Load", key, "file does not exist", << >>)
                  ELSE LET buf == ReadAll(DecodeWith(iowrap[p], store[objName(key)]))
                       IN IF buf.err # None
                            THEN Result("Load", key, buf.err, << >>)
                            ELSE Result("Load", key, None, buf.buf)]
    /\ UNCHANGED <<now, store, pc, startedAt, timer, lockData, ctxDone, res, ures,
                   obs, retry, held, lastWriter, writtenAt, removed, after,
                   iowrap, rand, last>>

\* Delete: DeleteObject on the key's object name
Delete(p, key) ==
    /\ pc[p] = "idle"
    /\ budget.stores > 0
    /\ budget' = [budget EXCEPT !.stores = @ - 1]
    /\ store' = DeleteObject(store, objName(key))
    /\ last' = DeleteObject(last, objName(key))
    /\ out' = [out EXCEPT ![p] = Result("Delete", key, None, << >>)]
    /\ UNCHANGED <<now, pc, startedAt, timer, lockData, ctxDone, res, ures,
                   obs, retry, held, lastWriter, writtenAt, removed, after,
                   iowrap, rand>>

\* an object of zero length put in the bucket by another writer than Store
ForeignPut(key) ==
    /\ budget.stores > 0
    /\ budget' = [budget EXCEPT !.stores = @ - 1]
    /\ store' = PutObject(store, objName(key), << >>)
    /\ last' = DeleteObject(last, objName(key))
    /\ UNCHANGED <<now, pc, startedAt, timer, lockData, ctxDone, res, ures,
                   obs, retry, held, lastWriter, writtenAt, removed, after,
                   iowrap, out, rand>>

(* ---------------------- Exists, List and Stat -------------------------- *)

\* strings.HasPrefix, strings.HasSuffix, strings.TrimPrefix
HasPrefix(s, prefix) ==
    Len(s) >= Len(prefix) /\ SubSeq(s, 1, Len(prefix)) = prefix

HasSuffix(s, suffix) ==
    Len(s) >= Len(suffix) /\ SubSeq(s, Len(s) - Len(suffix) + 1, Len(s)) = suffix

TrimPrefix(s, prefix) ==
    IF HasPrefix(s, prefix) THEN SubSeq(s, Len(prefix) + 1, Len(s)) ELSE s

\* the logical keys Exists, List and Stat are used with: the key Lock is
\* called on and another one
DirKeys == {LockKey, <<"c">>}

\* the values stored under them
DirValues == {[i \in 1 .. n |-> 0] : n \in 1 .. MaxLen}

\* the prefixes List is called with
ListPrefixes == {<< >>, <<"c">>}

\* an error of the object store that is not "not found"
TransportError == "connection reset"

\* the errors HeadObject answers a missing object with: the response to HEAD
\* has no body to carry S3's NoSuchKey code, and the SDK derives NotFound
\* from the status; both are kept, the bucket's server choosing
HeadObjectMisses == {"NotFound", "NoSuchKey"}

\* when the object was last written
LastModified(name) == IF name = Lease THEN writtenAt ELSE last[name].at

\* the answers HeadObject may give for object name: its length and time of
\* writing, or a not-found error; and a transport error while the store may
\* still fail
HeadObject(s, name) ==
    (IF Exists(s, name)
       THEN {[err |-> None, ContentLength |-> Len(s[name]),
              LastModified |-> LastModified(name)]}
       ELSE {[err |-> e, ContentLength |-> 0, LastModified |-> 0] :
               e \in HeadObjectMisses})
    \cup (IF budget.faults > 0
            THEN {[err |-> TransportError, ContentLength |-> 0, LastModified |-> 0]}
            ELSE {})

\* the answers ListObjectsV2 may give for a prefix, all pages together: the
\* names that begin with it (as a set: the order is the listing's), or a
\* transport error
ListObjectsV2(s, prefix) ==
    {[err |-> None, Contents |-> {name \in DOMAIN s : HasPrefix(name, prefix)}]}
    \cup (IF budget.faults > 0
            THEN {[err |-> TransportError, Contents |-> {}]}
            ELSE {})

\* the result of a call that asked the object store: the call, its input,
\* the store's error, the error returned and the value returned
Answer(op, in, sdk, err, val) ==
    [op |-> op, in |-> in, sdk |-> sdk, err |-> err, val |-> val]

\* the budget after one more facade call whose store call answered sdk
Spend(sdk) ==
    [budget EXCEPT !.ops = @ - 1,
                   !.faults = IF sdk = TransportError THEN @ - 1 ELSE @]

\* the zero certmagic.KeyInfo
NoKeyInfo == [Key |-> << >>, Size |-> 0, Modified |-> 0, IsTerminal |-> FALSE]

\* Exists: whether HeadObject on the key's object name gave no error
S3Exists(p, key) ==
    /\ pc[p] = "idle"
    /\ budget.ops > 0
    /\ \E head \in HeadObject(store, objName(key)) :
         /\ budget' = Spend(head.err)
         /\ out' = [out EXCEPT ![p] =
                       Answer("Exists", key, head.err, None, head.err = None)]
    /\ UNCHANGED <<now, store, pc, startedAt, timer, lockData, ctxDone, res, ures,
                   obs, retry, held, lastWriter, writtenAt, removed, after,
                   iowrap, rand, last>>

\* Stat: HeadObject on the key's object name; NoSuchKey becomes not-exist,
\* any other error is returned as it is, and an answer becomes the KeyInfo
S3Stat(p, key) ==
    /\ pc[p] = "idle"
    /\ budget.ops > 0
    /\ \E head \in HeadObject(store, objName(key)) :
         /\ budget' = Spend(head.err)
         /\ out' = [out EXCEPT ![p] =
                       IF head.err = "NoSuchKey"
                         THEN Answer("Stat", key, head.err, "file does not exist", NoKeyInfo)
                       ELSE IF head.err # None
                         THEN Answer("Stat", key, head.err, head.err, NoKeyInfo)
                       ELSE Answer("Stat", key, None, None,
                                   [Key |-> key, Size |-> head.ContentLength,
                                    Modified |-> head.LastModified,
                                    IsTerminal |-> TRUE])]
    /\ UNCHANGED <<now, store, pc, startedAt, timer, lockData, ctxDone, res, ures,
                   obs, retry, held, lastWriter, writtenAt, removed, after,
                   iowrap, rand, last>>

\* List: the names of all objects under the configured prefix, as the
\* listing gives them; prefix and recursive are not used
S3List(p, prefix, recursive) ==
    /\ pc[p] = "idle"
    /\ budget.ops > 0
    /\ \E result \in ListObjectsV2(store, objName(<< >>)) :
         /\ budget' = Spend(result.err)
         /\ out' = [out EXCEPT ![p] =
                       Answer("List", <<prefix, recursive>>, result.err, result.err,
                              result.Contents)]
    /\ UNCHANGED <<now, store, pc, startedAt, timer, lockData, ctxDone, res, ures,
                   obs, retry, held, lastWriter, writtenAt, removed, after,
                   iowrap, rand, last>>

\* Store of a value that is not empty whose PutObject fails
StoreFails(p, key, value) ==
    /\ pc[p] = "idle"
    /\ budget.stores > 0
    /\ budget.faults > 0
    /\ now <= MaxStart
    /\ Len(value) > 0
    /\ budget' = [budget EXCEPT !.stores = @ - 1, !.faults = @ - 1]
    /\ out' = [out EXCEPT ![p] =
                  Answer("Store", key, TransportError, "failed to store key", << >>)]
    /\ UNCHANGED <<now, store, pc, startedAt, timer, lockData, ctxDone, res, ures,
                   obs, retry, held, lastWriter, writtenAt, removed, after,
                   iowrap, rand, last>>

\* Load whose GetObject fails with another error than NoSuchKey
LoadFails(p, key) ==
    /\ pc[p] = "idle"
    /\ budget.ops > 0
    /\ budget.faults > 0
    /\ budget' = Spend(TransportError)
    /\ out' = [out EXCEPT ![p] =
                  Answer("Load", key, TransportError, "failed to load key", << >>)]
    /\ UNCHANGED <<now, store, pc, startedAt, timer, lockData, ctxDone, res, ures,
                   obs, retry, held, lastWriter, writtenAt, removed, after,
                   iowrap, rand, last>>

\* Delete whose DeleteObject fails
DeleteFails(p, key) ==
    /\ pc[p] = "idle"
    /\ budget.stores > 0
    /\ budget.faults > 0
    /\ budget' = [budget EXCEPT !.stores = @ - 1, !.faults = @ - 1]
    /\ out' = [out EXCEPT ![p] =
                  Answer("Delete", key, TransportError, "failed to delete key", << >>)]
    /\ UNCHANGED <<now, store, pc, startedAt, timer, lockData, ctxDone, res, ures,
                   obs, retry, held, lastWriter, writtenAt, removed, after,
                   iowrap, rand, last>>

(* --------------------- Lock and Unlock on many keys -------------------- *)

\* the logical keys Lock and Unlock are called with: two spellings of one
\* key and another key
LockKeys == {<<"a">>, <<"/", "a">>, <<"b">>}

\* Lock's entry on a key: startedAt := time.Now()
LockCallOn(p, key) ==
    /\ pc[p] = "idle"
    /\ budget.calls > 0
    /\ now <= MaxKeyStart
    /\ budget' = [budget EXCEPT !.calls = @ - 1]
    /\ pc' = [pc EXCEPT ![p] = "get"]
    /\ startedAt' = [startedAt EXCEPT ![p] = now]
    /\ res' = [res EXCEPT ![p] = None]
    /\ obs' = [obs EXCEPT ![p] = None]
    /\ retry' = [retry EXCEPT ![p] = 0]
    /\ out' = [out EXCEPT ![p] = Result("Lock", key, None, << >>)]
    /\ timer' = [timer EXCEPT ![p] = now]
    /\ UNCHANGED <<now, store, lockData, ctxDone, ures, held, lastWriter,
                   writtenAt, removed, after, iowrap, rand, last>>

\* an iteration of the loop of a Lock call on a key whose GetObject on the
\* key's lease name answers NoSuchKey: the call holds the answer
LockGetObjectNoSuchKeyOn(p) ==
    /\ out[p].op = "Lock"
    /\ AtGetObject(p)
    /\ ~Exists(store, objLockName(out[p].in))
    /\ pc' = [pc EXCEPT ![p] = "nokey"]
    /\ UNCHANGED <<now, store, startedAt, timer, lockData, ctxDone, res, ures, budget,
                   obs, retry, held, lastWriter, writtenAt, removed, after>>
    /\ UNCHANGED codecVars

\* the call on a key that holds NoSuchKey enters putLockFile, which reads
\* the clock for the lease it will send
LockNoSuchKeyOn(p) ==
    /\ out[p].op = "Lock"
    /\ pc[p] = "nokey"
    /\ Decide(p, NoSuchKey)
    /\ UNCHANGED <<now, store, ctxDone, ures, budget, held, lastWriter,
                   writtenAt, removed, after>>
    /\ UNCHANGED codecVars

\* an iteration of the loop of a Lock call on a key whose GetObject
\* succeeds: the answer is the lease as it is under the key's lease name
\* now, and the call waits for the body (from records the key of the Lock
\* call that had written the lease that was read)
LockGetObjectOn(p) ==
    /\ out[p].op = "Lock"
    /\ AtGetObject(p)
    /\ Exists(store, objLockName(out[p].in))
    /\ pc' = [pc EXCEPT ![p] = "read"]
    /\ out' = [out EXCEPT ![p] =
                  [op |-> "Lock", in |-> out[p].in, err |-> None,
                   buf |-> store[objLockName(out[p].in)],
                   from |-> last[objLockName(out[p].in)].key]]
    /\ UNCHANGED <<now, store, startedAt, timer, lockData, ctxDone, res, ures, budget,
                   obs, retry, held, lastWriter, writtenAt, removed, after,
                   iowrap, rand, last>>

\* io.ReadAll of the body in a Lock call on a key: the clock is read and
\* the iteration decides from the bytes GetObject answered with
LockReadAllOn(p) ==
    /\ out[p].op = "Lock"
    /\ pc[p] = "read"
    /\ Decide(p, out[p].buf)
    /\ out' = [out EXCEPT ![p] = Result("Lock", out[p].in, None, << >>)]
    /\ UNCHANGED <<now, store, ctxDone, ures, budget, held, lastWriter,
                   writtenAt, removed, after, iowrap, rand, last>>

\* putLockFile of a Lock call on a key: PutObject on the key's lease name
\* lands and Lock returns its nil error
putLockFileOn(p) ==
    /\ out[p].op = "Lock"
    /\ pc[p] = "put"
    /\ store' = PutObject(store, objLockName(out[p].in), lockData[p])
    /\ last' = PutObject(last, objLockName(out[p].in),
                         [key |-> out[p].in, by |-> p, at |-> now])
    /\ pc' = [pc EXCEPT ![p] = "idle"]
    /\ res' = [res EXCEPT ![p] = "ok"]
    /\ lockData' = [lockData EXCEPT ![p] = << >>]
    /\ timer' = [timer EXCEPT ![p] = 0]
    /\ startedAt' = [startedAt EXCEPT ![p] = 0]
    /\ UNCHANGED <<now, ctxDone, ures, budget, obs, retry, held, lastWriter,
                   writtenAt, removed, after, iowrap, out, rand>>

\* Unlock on a key: DeleteObject on the key's lease name
UnlockOn(p, key) ==
    /\ pc[p] = "idle"
    /\ budget.unlocks > 0
    /\ now <= MaxKeyStart
    /\ budget' = [budget EXCEPT !.unlocks = @ - 1]
    /\ store' = DeleteObject(store, objLockName(key))
    /\ last' = DeleteObject(last, objLockName(key))
    /\ ures' = [ures EXCEPT ![p] = "ok"]
    /\ out' = [out EXCEPT ![p] = Result("Unlock", key, None, << >>)]
    /\ UNCHANGED <<now, pc, startedAt, timer, lockData, ctxDone, res, obs, retry,
                   held, lastWriter, writtenAt, removed, after, iowrap, rand>>

\* Unlock on a key whose DeleteObject fails: Unlock returns the error, and
\* the key's lease is as it was
UnlockOnFails(p, key) ==
    /\ pc[p] = "idle"
    /\ budget.unlocks > 0
    /\ budget.faults > 0
    /\ now <= MaxKeyStart
    /\ budget' = [budget EXCEPT !.unlocks = @ - 1, !.faults = @ - 1]
    /\ ures' = [ures EXCEPT ![p] = "delerr"]
    /\ out' = [out EXCEPT ![p] = Result("Unlock", key, TransportError, << >>)]
    /\ UNCHANGED <<now, store, pc, startedAt, timer, lockData, ctxDone, res, obs,
                   retry, held, lastWriter, writtenAt, removed, after, iowrap,
                   rand, last>>

(* ------------------------- UnmarshalCaddyfile -------------------------- *)

\* an S3 as caddy makes it for the parser, no field set
NewS3 ==
    [Host |-> "", Endpoint |-> "", Insecure |-> FALSE, Bucket |-> "",
     Region |-> "", AccessKey |-> "", SecretKey |-> "", Profile |-> "",
     RoleARN |-> "", Prefix |-> "", EncryptionKey |-> "", UsePathStyle |-> FALSE]

\* the lines a storage block is written with, each the tokens of the line:
\* every option with a value it takes, the values a bool option and
\* encryption_key refuse, an option the parser does not know, an option with
\* no value, and lines with more tokens than an option and its value
DirectiveSet ==
    {<<"host", "minio.example.com">>,
     <<"endpoint", "https://minio.example.com">>,
     <<"insecure", "true">>,
     <<"insecure", "maybe">>,
     <<"bucket", "my-certificates">>,
     <<"region", "us-west-2">>,
     <<"access_key", "AKIAEXAMPLE">>,
     <<"secret_key", "EXAMPLE">>,
     <<"profile", "default">>,
     <<"role_arn", "arn:aws:iam::123456789012:role/caddy">>,
     <<"prefix", "caddy-certs">>,
     <<"encryption_key", "your-32-byte-encryption-key-here">>,
     <<"encryption_key", "your-31-byte-encryption-key-her">>,
     <<"encryption_key", "">>,
     <<"use_path_style", "true">>,
     <<"use_path_style", "false">>,
     <<"use_path_style", "maybe">>,
     <<"acl", "private">>,
     <<"bucket">>,
     <<"bucket", "my-certificates", "endpoint">>,
     <<"bucket", "my-certificates", "use_path_style", "false">>}

\* the storage blocks of at most n lines
Blocks(n) ==
    UNION {[1 .. m -> DirectiveSet] : m \in 0 .. n}

\* the storage blocks of the README: static credentials on AWS S3, and an
\* S3-compatible provider at a custom endpoint
Examples ==
    {<< <<"bucket", "my-certificates">>,
        <<"region", "us-west-2">>,
        <<"access_key", "AKIAEXAMPLE">>,
        <<"secret_key", "EXAMPLE">>,
        <<"prefix", "caddy-certs">>,
        <<"encryption_key", "your-32-byte-encryption-key-here">> >>,
     << <<"endpoint", "https://minio.example.com">>,
        <<"bucket", "my-certificates">>,
        <<"region", "us-east-1">>,
        <<"access_key", "minioadmin">>,
        <<"secret_key", "minioadmin">>,
        <<"prefix", "caddy-certs">> >>}

\* the segment caddy hands the parser of a storage block with these option
\* lines: the module's name and the opening brace on their line, the
\* lines, and the closing brace
Segment(block) == << <<"s3", "{">> >> \o block \o << <<"}">> >>

\* what the Dispenser UnmarshalCaddyfile is called with holds: the segment
\* of a storage block as caddy hands it in, or the option lines alone, as
\* a Dispenser made of them has them
StorageBlocks ==
    LET lines == Blocks(MaxDirectives) \cup Examples
    IN lines \cup {Segment(block) : block \in lines}

\* the tokens the Dispenser holds of a block from its i-th line on, each
\* with the line it is on
RECURSIVE Tokens(_, _)
Tokens(block, i) ==
    IF i > Len(block) THEN << >>
    ELSE [j \in 1 .. Len(block[i]) |-> [text |-> block[i][j], line |-> i]]
         \o Tokens(block, i + 1)

\* strconv.ParseBool
parseBool(value) ==
    IF value \in {"1", "t", "T", "TRUE", "true", "True"}
      THEN [parsed |-> TRUE, err |-> None]
    ELSE IF value \in {"0", "f", "F", "FALSE", "false", "False"}
      THEN [parsed |-> FALSE, err |-> None]
    ELSE [parsed |-> FALSE,
          err |-> "strconv.ParseBool: parsing \"" \o value \o "\": invalid syntax"]

\* the switch on one directive, d.key with d.value: the S3 with the field
\* set, or the error
Directive(s3, d) ==
    CASE d.key = "host" -> [s3 |-> [s3 EXCEPT !.Host = d.value], err |-> None]
      [] d.key = "endpoint" -> [s3 |-> [s3 EXCEPT !.Endpoint = d.value], err |-> None]
      [] d.key = "insecure" ->
           IF parseBool(d.value).err # None
             THEN [s3 |-> s3,
                   err |-> "invalid boolean value for 'insecure': "
                             \o parseBool(d.value).err]
             ELSE [s3 |-> [s3 EXCEPT !.Insecure = parseBool(d.value).parsed],
                   err |-> None]
      [] d.key = "bucket" -> [s3 |-> [s3 EXCEPT !.Bucket = d.value], err |-> None]
      [] d.key = "region" -> [s3 |-> [s3 EXCEPT !.Region = d.value], err |-> None]
      [] d.key = "access_key" ->
           [s3 |-> [s3 EXCEPT !.AccessKey = d.value], err |-> None]
      [] d.key = "secret_key" ->
           [s3 |-> [s3 EXCEPT !.SecretKey = d.value], err |-> None]
      [] d.key = "profile" -> [s3 |-> [s3 EXCEPT !.Profile = d.value], err |-> None]
      [] d.key = "role_arn" -> [s3 |-> [s3 EXCEPT !.RoleARN = d.value], err |-> None]
      [] d.key = "prefix" -> [s3 |-> [s3 EXCEPT !.Prefix = d.value], err |-> None]
      [] d.key = "encryption_key" ->
           IF d.value # "" /\ Len(d.value) # 32
             THEN [s3 |-> s3,
                   err |-> "encryption_key must be exactly 32 bytes, got "
                             \o ToString(Len(d.value))]
             ELSE [s3 |-> [s3 EXCEPT !.EncryptionKey = d.value], err |-> None]
      [] d.key = "use_path_style" ->
           IF parseBool(d.value).err # None
             THEN [s3 |-> s3,
                   err |-> "invalid boolean value for 'use_path_style': "
                             \o parseBool(d.value).err]
             ELSE [s3 |-> [s3 EXCEPT !.UsePathStyle = parseBool(d.value).parsed],
                   err |-> None]
      [] OTHER -> [s3 |-> s3, err |-> "unknown configuration option: " \o d.key]

\* d.ArgErr() with the Dispenser on the token val
ArgErr(val) ==
    IF val = "{" THEN "unexpected token '{', expecting argument"
    ELSE "wrong argument count or unexpected line ending after '" \o val \o "'"

\* the loop over the Dispenser's tokens from the i-th on: d.Next() takes the
\* next token, wherever it is, as the key; d.Args(&value) takes the token
\* after it as the value if it is on the key's line and is no opening
\* brace, and the loop ends with d.ArgErr() if there is none; it ends at
\* the first error of the switch
RECURSIVE Directives(_, _, _)
Directives(s3, tokens, i) ==
    IF i > Len(tokens) THEN [s3 |-> s3, err |-> None]
    ELSE IF \/ i = Len(tokens)
            \/ tokens[i + 1].line # tokens[i].line
            \/ tokens[i + 1].text = "{"
      THEN [s3 |-> s3, err |-> ArgErr(tokens[i].text)]
    ELSE LET r == Directive(s3, [key |-> tokens[i].text, value |-> tokens[i + 1].text])
         IN IF r.err # None THEN r ELSE Directives(r.s3, tokens, i + 2)

\* the defaults of Region and Prefix
Defaults(s3) ==
    [s3 EXCEPT !.Region = IF @ = "" THEN "us-east-1" ELSE @,
               !.Prefix = IF @ = "" THEN "acme" ELSE @]

\* the deprecated host option becomes the endpoint
EndpointOfHost(s3) ==
    IF s3.Host # "" /\ s3.Endpoint = ""
      THEN [s3 EXCEPT !.Endpoint = "https://" \o s3.Host]
      ELSE s3

\* a parser that leaves use_path_style as the block has it
PathStyleAsConfigured(s3) == s3

\* a custom endpoint turns path-style addressing on
ForcePathStyle(s3) ==
    IF s3.Endpoint # "" /\ ~s3.UsePathStyle
      THEN [s3 EXCEPT !.UsePathStyle = TRUE]
      ELSE s3

\* what buildS3Client hands the SDK of the endpoint and the addressing
ClientOptions(s3) ==
    [BaseEndpoint |-> s3.Endpoint, UsePathStyle |-> s3.UsePathStyle]

\* the result of parsing a block into a new S3.  The fields set before an
\* error stay set, and so do the defaults if the error comes after the loop
ParseBlock(block) ==
    LET r == Directives(NewS3, Tokens(block, 1), 1)
        s3 == Defaults(r.s3)
    IN IF r.err # None THEN r
       ELSE IF s3.Bucket = "" THEN [s3 |-> s3, err |-> "bucket is required"]
       ELSE IF s3.Host # "" /\ s3.Endpoint # ""
         THEN [s3 |-> s3, err |-> "cannot specify both 'host' and 'endpoint' options"]
       ELSE [s3 |-> ForcePathStyle(EndpointOfHost(s3)), err |-> None]

\* UnmarshalCaddyfile on the storage block of the process's Caddyfile, and
\* the options the client is then built with
UnmarshalCaddyfile(p) ==
    /\ out[p].op = None
    /\ LET block == out[p].in
           r == ParseBlock(block)
       IN out' = [out EXCEPT ![p] =
                     [op |-> "UnmarshalCaddyfile", in |-> block, err |-> r.err,
                      buf |-> << >>, s3 |-> r.s3, client |-> ClientOptions(r.s3)]]
    /\ UNCHANGED <<now, store, pc, startedAt, timer, lockData, ctxDone, res, ures,
                   budget, obs, retry, held, lastWriter, writtenAt, removed, after,
                   iowrap, rand, last>>

(* ----------------------- the codec on its own -------------------------- *)

\* d with its i-th byte altered
Flip(d, i) == [d EXCEPT ![i] = @ + 1]

\* what a stream handed to decode may be made of d: d itself, d with a byte
\* of its nonce, of its authenticator or of its end altered, d cut short by
\* a byte, down to its nonce, or to less
Variants(d) ==
    {d} \cup {Flip(d, i) : i \in {1, NonceSize + 1, Len(d)} \cap DOMAIN d}
        \cup {SubSeq(d, 1, n) : n \in {Len(d) - 1, NonceSize, NonceSize - 1} \cap DOMAIN d}

\* the streams decode is called with: the empty one, a short one, and what
\* encode calls gave, as given or altered
Streams ==
    {<< >>, <<0>>} \cup
    UNION {Variants(out[q].buf) :
             q \in {r \in Procs : out[r].op = "ByteReader" /\ out[r].err = None}}

\* an encode call: io.ReadAll of the codec's ByteReader(msg)
Encode(p, msg) ==
    /\ budget.ops > 0
    /\ budget' = [budget EXCEPT !.ops = @ - 1]
    /\ \E n \in Draws(iowrap[p]) :
         LET enc == ReadAll(EncodeWith(iowrap[p], n, msg))
         IN /\ out' = [out EXCEPT ![p] = Result("ByteReader", msg, enc.err, enc.buf)]
            /\ rand' = IF DrawsNonce(iowrap[p]) THEN rand \cup {n} ELSE rand
    /\ UNCHANGED <<now, store, pc, startedAt, timer, lockData, ctxDone, res, ures,
                   obs, retry, held, lastWriter, writtenAt, removed, after,
                   iowrap, last>>

\* a decode call: io.ReadAll of the codec's WrapReader over the stream
Decode(p) ==
    /\ budget.ops > 0
    /\ budget' = [budget EXCEPT !.ops = @ - 1]
    /\ \E data \in Streams :
         LET dec == ReadAll(DecodeWith(iowrap[p], data))
         IN out' = [out EXCEPT ![p] = Result("WrapReader", data, dec.err, dec.buf)]
    /\ UNCHANGED <<now, store, pc, startedAt, timer, lockData, ctxDone, res, ures,
                   obs, retry, held, lastWriter, writtenAt, removed, after,
                   iowrap, rand, last>>

(* ---------------------------- construction ----------------------------- *)

\* the configured EncryptionKey values: the empty string, and strings of one
\* repeated byte that are a byte long, a byte short of KeySize, KeySize bytes
\* long and a byte longer
KeyLens == {0, 1, KeySize - 1, KeySize, KeySize + 1}

EncryptionKeys == {[i \in 1 .. n |-> b] : n \in KeyLens, b \in SecretKeys}

\* the [32]byte array a SecretKey of the model stands for
SecretKeyBytes(key) == [i \in 1 .. KeySize |-> key]

\* copy(sb.SecretKey[:], []byte(s3.EncryptionKey)): the SecretKey whose bytes
\* are the string's first KeySize bytes, the array's other bytes staying zero
CopyKey(s) ==
    LET bytes == [i \in 1 .. KeySize |-> IF i <= Len(s) THEN s[i] ELSE ZeroKey]
    IN CHOOSE key \in SecretKeys : SecretKeyBytes(key) = bytes

\* S3.iowrap before Provision has set it
NoCodec == [kind |-> "nil", SecretKey |-> ZeroKey]

\* setupEncryption that takes any key that is not empty
setupEncryptionAnyLength(EncryptionKey) ==
    IF Len(EncryptionKey) = 0
      THEN [iowrap |-> CleartextIO, err |-> None]
    ELSE [iowrap |-> SecretBoxIO(EncryptionKey[1]), err |-> None]

\* S3.setupEncryption: the codec it sets and the error it returns
setupEncryption(EncryptionKey) ==
    IF Len(EncryptionKey) = 0
      THEN [iowrap |-> CleartextIO, err |-> None]
    ELSE IF Len(EncryptionKey) # KeySize
      THEN [iowrap |-> NoCodec, err |-> "encryption key must have exactly 32 bytes"]
    ELSE [iowrap |-> SecretBoxIO(CopyKey(EncryptionKey)), err |-> None]

\* S3.Provision: buildS3Client, which may fail, and then setupEncryption
Provision(p, EncryptionKey) ==
    /\ iowrap[p] = NoCodec
    /\ out[p] = NoResult
    /\ \E built \in BOOLEAN :
         LET set == setupEncryption(EncryptionKey)
         IN IF ~built
              THEN /\ out' = [out EXCEPT ![p] =
                                 Result("Provision", EncryptionKey,
                                        "failed to create S3 client", << >>)]
                   /\ UNCHANGED iowrap
              ELSE /\ out' = [out EXCEPT ![p] =
                                 Result("Provision", EncryptionKey, set.err, << >>)]
                   /\ iowrap' = [iowrap EXCEPT ![p] = set.iowrap]
    /\ UNCHANGED <<now, store, pc, startedAt, timer, lockData, ctxDone, res, ures,
                   budget, obs, retry, held, lastWriter, writtenAt, removed,
                   after, rand, last>>

\* Store on a facade that Provision gave a codec it can use
ProvisionedStore(p, key, value) ==
    /\ iowrap[p] \in FacadeCodecs
    /\ Store(p, key, value)

\* Load on a facade that Provision gave a codec it can use
ProvisionedLoad(p, key) ==
    /\ iowrap[p] \in FacadeCodecs
    /\ Load(p, key)

(* ------------------------ object names on their own -------------------- *)

\* the strings of at most n characters made of a separator and a letter
RECURSIVE Strings(_)
Strings(n) ==
    IF n = 0 THEN {<< >>}
    ELSE Strings(n - 1) \cup {Append(s, c) : s \in Strings(n - 1), c \in {"/", "a"}}

\* the prefixes and keys objName is applied to
Names == Strings(MaxNameLen)

\* a facade with Prefix configured is asked for the object name and the
\* lease name of key
ObjName(p, configured, key) ==
    /\ out[p] = NoResult
    /\ out' = [out EXCEPT ![p] =
                  [op |-> "objName", in |-> <<configured, key>>, err |-> None,
                   buf |-> objNameOf(configured, key),
                   lock |-> objLockNameOf(configured, key)]]
    /\ UNCHANGED <<now, store, pc, startedAt, timer, lockData, ctxDone, res, ures,
                   budget, obs, retry, held, lastWriter, writtenAt, removed,
                   after, iowrap, rand, last>>

(* ------------------------------ the clock ------------------------------ *)

\* the clock moves on unless a process is overdue.  A step of Lock's loop is
\* due at timer: the GetObject of a call that began or continued then, or the
\* one after a time.Sleep that is over then; it is taken, with the read of the
\* body or the entry into putLockFile, no later than MaxLag ticks after.  A PutObject lands by timer.  A loop
\* whose context is cancelled issues GetObject for ever, and the clock moves.
\* A Load that has its body open reads it within MaxLag ticks of the last
\* tick it can begin at.  Past MaxStart the clock is followed only while a
\* call runs
Tick ==
    /\ now < MaxTime
    /\ now < MaxStart \/ \E p \in Procs : pc[p] # "idle"
    /\ \A p \in Procs :
         /\ pc[p] = "get" => (ctxDone[p] /\ retry[p] > 0) \/ now < timer[p] + MaxLag
         /\ pc[p] \in {"sleep", "read", "nokey"} => now < timer[p] + MaxLag
         /\ pc[p] = "put" => now < timer[p]
         /\ pc[p] = "load" => now < MaxStreamStart + MaxLag
    /\ now' = now + 1
    /\ UNCHANGED <<store, pc, startedAt, timer, lockData, ctxDone, res, ures,
                   budget, obs, retry, held, lastWriter, writtenAt, removed, after>>
    /\ UNCHANGED codecVars

Next ==
    \/ \E p \in Procs : LockCall(p)
    \/ \E p \in Procs : LockGetObjectNoSuchKey(p)
    \/ \E p \in Procs : LockNoSuchKey(p)
    \/ \E p \in Procs : LockGetObject(p)
    \/ \E p \in Procs : LockReadAll(p)
    \/ \E p \in Procs : putLockFile(p)
    \/ \E p \in Procs : Unlock(p)
    \/ Tick

Spec == Init /\ [][Next]_vars

\* an object store whose reads and writes may fail
InitFaults ==
    /\ InitProcs
    /\ iowrap = [p \in Procs |-> CleartextIO]
    /\ budget = [calls |-> MaxCalls, unlocks |-> MaxUnlocks, faults |-> MaxFaults,
                 cancels |-> 0, stores |-> 0]

NextFaults ==
    \/ \E p \in Procs : LockCall(p)
    \/ \E p \in Procs : LockGetObjectNoSuchKey(p)
    \/ \E p \in Procs : LockNoSuchKey(p)
    \/ \E p \in Procs : LockGetObject(p)
    \/ \E p \in Procs : LockReadAll(p)
    \/ \E p \in Procs : GetObjectFails(p)
    \/ \E p \in Procs : LockReadAllFails(p)
    \/ \E p \in Procs : putLockFile(p)
    \/ \E p \in Procs : putLockFileFails(p)
    \/ \E p \in Procs : Unlock(p)
    \/ \E p \in Procs : UnlockFails(p)
    \/ Tick

SpecFaults == InitFaults /\ [][NextFaults]_vars

\* a Store on the key that shares the lease's object name
InitStore ==
    /\ InitProcs
    /\ iowrap = [p \in Procs |-> CleartextIO]
    /\ budget = [calls |-> MaxCallsEnv, unlocks |-> 0, faults |-> 0,
                 cancels |-> 0, stores |-> MaxStores]

NextStore ==
    \/ \E p \in Procs : LockCall(p)
    \/ \E p \in Procs : LockGetObjectNoSuchKey(p)
    \/ \E p \in Procs : LockNoSuchKey(p)
    \/ \E p \in Procs : LockGetObject(p)
    \/ \E p \in Procs : LockReadAll(p)
    \/ \E p \in Procs : putLockFile(p)
    \/ \E p \in Procs, k \in StoreKeys, v \in StoreValues : Store(p, k, v)
    \/ Tick

SpecStore == InitStore /\ [][NextStore]_vars

\* callers that may cancel the context they gave to Lock, and a store that
\* may fail
InitCancel ==
    /\ InitProcs
    /\ iowrap = [p \in Procs |-> CleartextIO]
    /\ budget = [calls |-> MaxCallsEnv, unlocks |-> 0, faults |-> MaxFaults,
                 cancels |-> MaxCancels, stores |-> 0]

NextCancel ==
    \/ \E p \in Procs : LockCall(p)
    \/ \E p \in Procs : LockGetObjectNoSuchKey(p)
    \/ \E p \in Procs : LockNoSuchKey(p)
    \/ \E p \in Procs : LockGetObject(p)
    \/ \E p \in Procs : LockReadAll(p)
    \/ \E p \in Procs : GetObjectFails(p)
    \/ \E p \in Procs : LockReadAllFails(p)
    \/ \E p \in Procs : putLockFile(p)
    \/ \E p \in Procs : putLockFileFails(p)
    \/ \E p \in Procs : Cancel(p)
    \/ Tick

SpecCancel == InitCancel /\ [][NextCancel]_vars

\* facades over one bucket, each with its codec, storing and loading payloads
InitKV ==
    /\ InitProcs
    /\ iowrap \in [Procs -> FacadeCodecs]
    /\ budget = [calls |-> 0, unlocks |-> 0, faults |-> 0, cancels |-> 0,
                 stores |-> MaxOps, ops |-> MaxLoads]

NextKV ==
    \/ \E p \in Procs, k \in PayloadKeys, v \in PayloadValues : Store(p, k, v)
    \/ \E p \in Procs, k \in PayloadKeys : Load(p, k)
    \/ \E p \in Procs, k \in PayloadKeys : Delete(p, k)
    \/ \E k \in PayloadKeys : ForeignPut(k)

SpecKV == InitKV /\ [][NextKV]_vars

\* facades over one bucket that store, delete, lock, and ask what is there,
\* over an object store that may fail; the bucket starts without a lease and
\* MaxDirLocks Lock calls are made with no Unlock, so that the GetObject of
\* a Lock call answers NoSuchKey
InitDir ==
    /\ InitProcs
    /\ iowrap = [p \in Procs |-> CleartextIO]
    /\ budget = [calls |-> MaxDirLocks, unlocks |-> 0, faults |-> MaxDirFaults,
                 cancels |-> 0, stores |-> MaxDirStores, ops |-> MaxDirOps]

NextDir ==
    \/ \E p \in Procs : LockCall(p)
    \/ \E p \in Procs : LockGetObjectNoSuchKey(p)
    \/ \E p \in Procs : LockNoSuchKey(p)
    \/ \E p \in Procs : putLockFile(p)
    \/ \E p \in Procs, k \in DirKeys, v \in DirValues : Store(p, k, v)
    \/ \E p \in Procs, k \in DirKeys, v \in DirValues : StoreFails(p, k, v)
    \/ \E p \in Procs, k \in DirKeys : LoadFails(p, k)
    \/ \E p \in Procs, k \in DirKeys : Delete(p, k)
    \/ \E p \in Procs, k \in DirKeys : DeleteFails(p, k)
    \/ \E p \in Procs, k \in DirKeys : S3Exists(p, k)
    \/ \E p \in Procs, k \in DirKeys : S3Stat(p, k)
    \/ \E p \in Procs, k \in ListPrefixes, r \in BOOLEAN : S3List(p, k, r)
    \/ Tick

SpecDir == InitDir /\ [][NextDir]_vars

\* the processes of a cluster are started with one storage block in their
\* Caddyfiles, and each parses it into a new S3
InitConfig ==
    /\ now = 0
    /\ store = << >>
    /\ pc = [p \in Procs |-> "idle"]
    /\ startedAt = [p \in Procs |-> 0]
    /\ timer = [p \in Procs |-> 0]
    /\ lockData = [p \in Procs |-> << >>]
    /\ ctxDone = [p \in Procs |-> FALSE]
    /\ res = [p \in Procs |-> None]
    /\ ures = [p \in Procs |-> None]
    /\ obs = [p \in Procs |-> None]
    /\ retry = [p \in Procs |-> 0]
    /\ held = [p \in Procs |-> FALSE]
    /\ lastWriter = None
    /\ writtenAt = 0
    /\ removed = None
    /\ after = [p \in Procs |-> {}]
    /\ \E block \in StorageBlocks :
         out = [p \in Procs |-> Result(None, block, None, << >>)]
    /\ rand = {}
    /\ last = << >>
    /\ iowrap = [p \in Procs |-> NoCodec]
    /\ budget = [calls |-> 0, unlocks |-> 0, faults |-> 0, cancels |-> 0,
                 stores |-> 0, ops |-> 0]

NextConfig ==
    \E p \in Procs : UnmarshalCaddyfile(p)

SpecConfig == InitConfig /\ [][NextConfig]_vars

\* a lease written at the first instant by a holder that is gone: nobody
\* unlocks, and the callers, the clock and the object store keep going
InitAbandoned ==
    /\ now = 0
    /\ store = PutObject(<< >>, Lease, Format(0))
    /\ pc = [p \in Procs |-> "idle"]
    /\ startedAt = [p \in Procs |-> 0]
    /\ timer = [p \in Procs |-> 0]
    /\ lockData = [p \in Procs |-> << >>]
    /\ ctxDone = [p \in Procs |-> FALSE]
    /\ res = [p \in Procs |-> None]
    /\ ures = [p \in Procs |-> None]
    /\ obs = [p \in Procs |-> None]
    /\ retry = [p \in Procs |-> 0]
    /\ held = [p \in Procs |-> FALSE]
    /\ lastWriter = None
    /\ writtenAt = 0
    /\ removed = None
    /\ after = [p \in Procs |-> {}]
    /\ out = [p \in Procs |-> NoResult]
    /\ rand = {}
    /\ last = << >>
    /\ iowrap = [p \in Procs |-> CleartextIO]
    /\ budget = [calls |-> MaxCallsEnv, unlocks |-> 0, faults |-> 0,
                 cancels |-> 0, stores |-> 0]

NextAbandoned ==
    \/ \E p \in Procs : LockCall(p)
    \/ \E p \in Procs : LockGetObject(p)
    \/ \E p \in Procs : LockReadAll(p)
    \/ \E p \in Procs : putLockFile(p)
    \/ Tick

\* a running Lock call takes its next step, its PutObject is answered, and
\* time passes
SpecAbandoned ==
    /\ InitAbandoned
    /\ [][NextAbandoned]_vars
    /\ WF_vars(Tick)
    /\ \A p \in Procs :
         /\ WF_vars(LockGetObject(p))
         /\ WF_vars(LockReadAll(p))
         /\ WF_vars(putLockFile(p))

\* Lock and Unlock calls on several keys over one bucket
InitKeys ==
    /\ InitProcs
    /\ iowrap = [p \in Procs |-> CleartextIO]
    /\ budget = [calls |-> MaxKeyCalls, unlocks |-> MaxKeyUnlocks,
                 faults |-> MaxKeyFaults,
                 cancels |-> 0, stores |-> 0]

NextKeys ==
    \/ \E p \in Procs, k \in LockKeys : LockCallOn(p, k)
    \/ \E p \in Procs : LockGetObjectNoSuchKeyOn(p)
    \/ \E p \in Procs : LockNoSuchKeyOn(p)
    \/ \E p \in Procs : LockGetObjectOn(p)
    \/ \E p \in Procs : LockReadAllOn(p)
    \/ \E p \in Procs : putLockFileOn(p)
    \/ \E p \in Procs, k \in LockKeys : UnlockOn(p, k)
    \/ \E p \in Procs, k \in LockKeys : UnlockOnFails(p, k)
    \/ Tick

SpecKeys == InitKeys /\ [][NextKeys]_vars

\* codecs on their own: encode calls and decode calls
InitCodec ==
    /\ InitProcs
    /\ iowrap \in [Procs -> {SecretBoxIO(k) : k \in SecretKeys}]
    /\ budget = [calls |-> 0, unlocks |-> 0, faults |-> 0, cancels |-> 0,
                 stores |-> 0, ops |-> MaxCodecOps]

NextCodec ==
    \/ \E p \in Procs, m \in Msgs : Encode(p, m)
    \/ \E p \in Procs : Decode(p)

SpecCodec == InitCodec /\ [][NextCodec]_vars

(* ------------------------- properties of Lock -------------------------- *)

\* the step is the decision of an iteration of p's loop whose read
\* succeeded: p holds GetObject's NoSuchKey, or the body GetObject answered
\* with, and now decides to write, to sleep or to return
IterationOf(p) ==
    /\ pc[p] \in {"read", "nokey"}
    /\ pc'[p] \notin {"get", "read", "nokey"}

\* what GetObject answered in the iteration of p that decides in this step:
\* the body p holds, or NoSuchKey
LeaseRead(p) == IF pc[p] = "read" THEN out[p].buf ELSE NoSuchKey

\* the lease p's iteration read has a timestamp within LockTimeout of now
ReadLive(p) == Looks(LeaseRead(p), now) = "live"

\* the step is p's putLockFile returning to Lock's caller
Landing(p) == pc[p] = "put" /\ pc'[p] = "idle"

\* the lease object is there and its timestamp is within LockTimeout of now
LeaseLive == Exists(store, Lease) /\ Looks(store[Lease], now) = "live"

\* C1: two Lock calls that both read the lease as absent both write it and
\* both return success: every write that lands returns success to its caller
\* whether or not another caller's lease is already there, no earlier caller
\* loses its belief of holding the lock, and the lease that remains after a
\* write is the one that write carried (the last to land wins)
C1_BothSucceedLastWriteWins ==
    [][\A p \in Procs :
         Landing(p) =>
           /\ res'[p] = "ok"
           /\ held'[p]
           /\ \A q \in Procs : held[q] => held'[q]
           /\ Exists(store', Lease)
           /\ store'[Lease] = lockData[p]
           /\ lastWriter' = p]_vars

\* C1 (witness): with no Unlock ever called, two callers have both read the
\* lease as absent, both returned success and both believe they hold the
\* lock; the lease is the one written last
C1_Witness ==
    \E p, q \in Procs :
        /\ p # q
        /\ budget.unlocks = MaxUnlocks
        /\ held[p] /\ held[q]
        /\ res[p] = "ok" /\ res[q] = "ok"
        /\ obs[p] = "absent" /\ obs[q] = "absent"
        /\ lastWriter = q
        /\ Exists(store, Lease)

\* C2: while A holds the lock (its Lock returned success, no
\* Unlock since, its lease not overwritten) and less than LockTimeout has
\* elapsed since A's lease write landed, no Lock call of another process that
\* began after that write returns success
C2_NoSuccessWithinTimeoutOfWrite ==
    [][\A a, b \in Procs :
         ( /\ a # b
           /\ held[a] /\ lastWriter = a
           /\ a \in after[b]
           /\ now - writtenAt < LockTimeout )
         => ~Landing(b)]_vars

\* C3: a Lock call whose GetObject answers NoSuchKey does nothing but enter
\* putLockFile and write: it neither sleeps, reads again nor returns before
\* its write; the lease it sends has the time at which putLockFile is
\* entered (to the whole second), whatever has been written to the bucket
\* since GetObject answered; and when the write lands the call returns
\* success with that lease in the store
C3_AbsentLeaseWrittenAtOnce ==
    [][\A p \in Procs :
         /\ pc[p] = "nokey" => pc'[p] \in {"nokey", "put"}
         /\ (IterationOf(p) /\ pc[p] = "nokey") =>
               /\ pc'[p] = "put"
               /\ obs'[p] = "absent"
               /\ lockData'[p] = Format(now)
               /\ res'[p] = res[p]
         /\ (pc[p] = "put" /\ obs[p] = "absent") => pc'[p] \in {"put", "idle"}
         /\ (Landing(p) /\ obs[p] = "absent") =>
               /\ res'[p] = "ok"
               /\ Exists(store', Lease)
               /\ store'[Lease] = lockData[p]
               /\ ParseTime(lockData[p]) <= now
               /\ now - ParseTime(lockData[p]) < MaxPutLatency + Second]_vars

\* C3 (witness): a call that read the lease as absent has returned success
\* and its lease is in the store
C3_Witness ==
    \E p \in Procs :
        /\ res[p] = "ok" /\ obs[p] = "absent"
        /\ pc[p] = "idle" /\ held[p] /\ lastWriter = p
        /\ Exists(store, Lease) /\ ParseOk(store[Lease])

\* C4 (as stated): while the lease in the bucket has a timestamp within
\* LockTimeout of now, no Lock call decides to write and none returns
\* success
C4_NoSuccessWhileLeaseLive ==
    [][\A p \in Procs :
         LeaseLive => /\ ~(Landing(p) /\ res'[p] = "ok")
                      /\ IterationOf(p) => pc'[p] # "put"]_vars

\* C4: an iteration of Lock that has read a lease whose timestamp is within
\* LockTimeout of now never leads to success: it returns the
\* acquisition-failed error when more than LockTimeout has passed since the
\* call began, and otherwise sleeps for LockPollInterval; a sleeping call
\* reads nothing before its sleep is over; the acquisition-failed error is
\* returned only from such a read; and an iteration decides to write only
\* when the lease it read is not live (the lease in the bucket may have been
\* rewritten since GetObject answered)
C4_LiveLeaseWaitsOrTimesOut ==
    [][\A p \in Procs :
         /\ (IterationOf(p) /\ ReadLive(p)) =>
               IF startedAt[p] + LockTimeout < now
                 THEN pc'[p] = "idle" /\ res'[p] = "timeout"
                 ELSE /\ pc'[p] = "sleep"
                      /\ timer'[p] = now + LockPollInterval
                      /\ res'[p] = res[p]
         /\ (pc[p] = "sleep" /\ now < timer[p]) =>
               pc'[p] = "sleep" /\ timer'[p] = timer[p]
         /\ (res'[p] = "timeout" /\ pc[p] # "idle") =>
               /\ IterationOf(p)
               /\ ReadLive(p)
               /\ startedAt[p] + LockTimeout < now
         /\ (IterationOf(p) /\ pc'[p] = "put") => ~ReadLive(p)]_vars

\* C4 (witness): a call that kept reading a live lease has returned the
\* acquisition-failed error, the lease still live and in place
C4_Witness ==
    \E p \in Procs :
        /\ res[p] = "timeout" /\ obs[p] = "live"
        /\ pc[p] = "idle" /\ ~held[p]
        /\ LeaseLive

\* C5: an iteration of Lock that has read a lease whose timestamp plus
\* LockTimeout is before now decides at once to overwrite it with the
\* current time, with no sleep and whatever the call's own age; when the
\* write lands the call returns success and the fresh lease has replaced the
\* stale one
C5_StaleLeaseOverwrittenAtOnce ==
    [][\A p \in Procs :
         /\ ( /\ IterationOf(p)
              /\ pc[p] = "read"
              /\ ParseOk(out[p].buf)
              /\ ParseTime(out[p].buf) + LockTimeout < now ) =>
               /\ pc'[p] = "put"
               /\ lockData'[p] = Format(now)
               /\ lockData'[p] # out[p].buf
               /\ now' = now
         /\ (pc[p] = "put" /\ obs[p] = "stale") => pc'[p] \in {"put", "idle"}
         /\ (Landing(p) /\ obs[p] = "stale") =>
               /\ res'[p] = "ok"
               /\ store'[Lease] = lockData[p]]_vars

\* C5 (witness): a call that began while another caller's lease was in place
\* read it as stale, overwrote it and returned success
C5_Witness ==
    \E p \in Procs :
        /\ res[p] = "ok" /\ obs[p] = "stale"
        /\ after[p] # {}
        /\ held[p] /\ lastWriter = p
        /\ Exists(store, Lease)
        /\ ParseTime(store[Lease]) + LockTimeout >= now

\* C6: an iteration of Lock that has read a lease whose body is no RFC3339
\* timestamp decides at once to overwrite it with the current time, however
\* recently that body was written; an empty body is decided the same way;
\* when the write is accepted the call returns success with its own lease in
\* the store
C6_UnparsableLeaseOverwritten ==
    [][\A p \in Procs :
         /\ ( /\ IterationOf(p)
              /\ pc[p] = "read"
              /\ Looks(out[p].buf, now) = "garbage" ) =>
               /\ pc'[p] = "put"
               /\ lockData'[p] = Format(now)
               /\ now' = now
         /\ LockDecision(<< >>, now, startedAt[p]) = "put"
         /\ (Landing(p) /\ obs[p] = "garbage" /\ res'[p] # "puterr") =>
               /\ res'[p] = "ok"
               /\ store'[Lease] = lockData[p]
               /\ ParseOk(store'[Lease])]_vars

\* C6 (witness): a call has read an unparsable lease body in the very tick
\* it was written, overwritten it and returned success
C6_Witness ==
    \E p \in Procs :
        /\ res[p] = "ok" /\ obs[p] = "garbage"
        /\ held[p] /\ lastWriter = p
        /\ budget.stores < MaxStores
        /\ now = 0
        /\ Exists(store, Lease) /\ ParseOk(store[Lease])

(* ------------------------ properties of Unlock ------------------------- *)

\* the step is a call of Unlock
Unlocking == budget'.unlocks < budget.unlocks

\* ... whose DeleteObject the object store answered
Deleting == Unlocking /\ budget'.faults = budget.faults

\* C7: every Unlock whose DeleteObject is answered leaves the store without
\* the lease object and returns no error, whoever wrote the lease and whether
\* or not the caller ever held the lock; it changes no other process's belief
\* of holding it
C7_UnlockDeletesAnyLease ==
    [][Deleting =>
         /\ ~Exists(store', Lease)
         /\ \A p \in Procs :
              /\ ures'[p] # "err"
              /\ ures'[p] # ures[p] => ures'[p] = "ok"
              /\ res'[p] = res[p]
         /\ \E p \in Procs :
              /\ ures'[p] = "ok"
              /\ \A q \in Procs \ {p} : held'[q] = held[q]]_vars

\* C7 (witness): q acquired the lock and never released it; p, which had
\* never called Lock, called Unlock and removed q's lease; p's first Lock
\* then read the lease as absent and succeeded, so that both believe they
\* hold the lock
C7_Witness ==
    \E p, q \in Procs :
        /\ p # q
        /\ budget.calls = MaxCalls - 2
        /\ held[q] /\ res[q] = "ok" /\ ures[q] = None
        /\ ures[p] = "ok" /\ removed = q
        /\ held[p] /\ res[p] = "ok" /\ obs[p] = "absent"
        /\ lastWriter = p

\* C8: an Unlock called when no lease object exists, and whose DeleteObject
\* is answered, returns no error and leaves the object store as it was
C8_UnlockAbsentIsNoError ==
    [][(Deleting /\ ~Exists(store, Lease)) =>
         /\ store' = store
         /\ \A p \in Procs :
              /\ ures'[p] # "err"
              /\ ures'[p] # ures[p] => ures'[p] = "ok"
         /\ \E p \in Procs : ures'[p] = "ok"]_vars

\* C8 (witness): an Unlock found no lease to delete and returned no error
C8_Witness ==
    \E p \in Procs :
        /\ ures[p] = "ok"
        /\ removed = "nothing"
        /\ ~Exists(store, Lease)
        /\ \A q \in Procs : res[q] = None

(* ---------------------- cancellation and faults ------------------------ *)

\* C9 (as stated): once the context of a Lock call that is waiting on a live
\* lease is cancelled, the call issues no further read, starts no further
\* sleep and does nothing but return
C9_CancelledLockStops ==
    [][\A p \in Procs :
         (ctxDone[p] /\ pc[p] # "idle" /\ obs[p] = "live") =>
            /\ retry'[p] = retry[p]
            /\ pc'[p] \in {pc[p], "idle"}
            /\ timer'[p] = timer[p] \/ pc'[p] = "idle"]_vars

\* the step is a read of p's loop that failed: GetObject's error, or ReadAll's
ReadFailed(p) ==
    \/ /\ AtGetObject(p)
       /\ pc'[p] = "get"
       /\ pc[p] = "sleep" \/ retry'[p] # retry[p]
    \/ pc[p] = "read" /\ pc'[p] = "get"

\* C10: a read that fails with an error other than not-found returns nothing
\* to the caller: the call stays in its loop with its start time kept, the
\* store and the clock as they were, and reads again; the next read that
\* succeeds decides as any read does; the acquisition-failed error is the
\* only error that a read produces, and only when more than LockTimeout has
\* passed since the call began (the one other error a call returns is that
\* of its own lease write)
C10_ReadErrorsRetried ==
    [][\A p \in Procs :
         /\ ReadFailed(p) =>
               /\ res'[p] = res[p]
               /\ res'[p] = None
               /\ startedAt'[p] = startedAt[p]
               /\ store' = store
               /\ now' = now
         /\ (IterationOf(p) /\ retry[p] > 0) =>
               LET d == LockDecision(LeaseRead(p), now, startedAt[p])
               IN pc'[p] = (CASE d = "put" -> "put" [] d = "sleep" -> "sleep"
                              [] OTHER -> "idle")
         /\ (pc[p] # "idle" /\ res'[p] \notin {None, "ok"}) =>
               \/ /\ res'[p] = "timeout"
                  /\ IterationOf(p)
                  /\ startedAt[p] + LockTimeout < now
               \/ /\ res'[p] = "puterr"
                  /\ pc[p] = "put"]_vars

\* C10 (witness): a call one of whose reads failed went on, read the lease as
\* absent, and has returned success
C10_Witness ==
    \E p \in Procs :
        /\ retry[p] > 0
        /\ obs[p] = "absent"
        /\ pc[p] = "idle" /\ res[p] = "ok"
        /\ held[p] /\ lastWriter = p

\* C11 (as stated): an object-store error other than not-found met while the
\* lease is being established reaches the caller only after a further
\* attempt: a call's lease write, which a call issues once, never ends in
\* the write's error being returned
C11_StoreErrorRetriedBeforeReturned ==
    [][\A p \in Procs :
         (pc[p] = "put" /\ obs[p] # None) => res'[p] # "puterr"]_vars


\* facades are provisioned, and those that come out usable store and load
InitProvision ==
    /\ InitProcs
    /\ iowrap = [p \in Procs |-> NoCodec]
    /\ budget = [calls |-> 0, unlocks |-> 0, faults |-> 0, cancels |-> 0,
                 stores |-> MaxProvisionedOps, ops |-> MaxProvisionedOps]

NextProvision ==
    \/ \E p \in Procs, k \in EncryptionKeys : Provision(p, k)
    \/ \E p \in Procs, key \in PayloadKeys, value \in PayloadValues :
         ProvisionedStore(p, key, value)
    \/ \E p \in Procs, key \in PayloadKeys : ProvisionedLoad(p, key)

SpecProvision == InitProvision /\ [][NextProvision]_vars

\* object names on their own
InitNames ==
    /\ InitProcs
    /\ iowrap = [p \in Procs |-> CleartextIO]
    /\ budget = [calls |-> 0, unlocks |-> 0, faults |-> 0, cancels |-> 0,
                 stores |-> 0, ops |-> 0]

NextNames == \E p \in Procs, configured \in Names, key \in Names : ObjName(p, configured, key)

SpecNames == InitNames /\ [][NextNames]_vars

(* ------------------- properties of Store and Load ---------------------- *)

\* the step is a Load of key by p
LoadOf(p, key) ==
    /\ budget'.ops < budget.ops
    /\ out'[p].op = "Load"
    /\ out'[p].in = key
    /\ Load(p, key)

\* C12: a Load of a key whose object was last written by a Store of a
\* non-empty value, with no Delete of it since, by an instance whose codec
\* is the one that Store used (the cleartext one, or the encrypted one under
\* the same key), succeeds and returns exactly the value stored
C12_LoadReturnsWhatWasStored ==
    [][\A p \in Procs, key \in PayloadKeys :
         (/\ Exists(last, objName(key))
          /\ last[objName(key)].io = iowrap[p]
          /\ LoadOf(p, key))
         => out'[p] = Result("Load", key, None, last[objName(key)].value)]_vars

\* C12 witness: with both codecs in use on the bucket, the cleartext instance
\* has loaded the non-empty value it stored, and the encrypted instance has
\* loaded the non-empty value it stored, which the bucket holds as an
\* envelope
C12_Witness ==
    \E p, q \in Procs, key \in PayloadKeys :
        /\ iowrap[p] = CleartextIO
        /\ iowrap[q].kind = "SecretBoxIO"
        /\ out[p].op = "Load" /\ out[p].err = None /\ Len(out[p].buf) > 0
        /\ Exists(last, objName(key))
        /\ last[objName(key)].io = iowrap[q]
        /\ out[q] = Result("Load", key, None, last[objName(key)].value)
        /\ Len(out[q].buf) > 0
        /\ Len(store[objName(key)]) = NonceSize + Overhead + Len(out[q].buf)

\* C13: a Store of an empty value returns the invalid-value error and writes
\* nothing: the bucket, the record of what was stored in it and the codecs
\* are as they were, so that a Load of the key returns after the call what
\* it returned before it
C13_EmptyValueRefusedNothingWritten ==
    [][\A p \in Procs, key \in PayloadKeys :
         (/\ budget'.stores < budget.stores
          /\ out'[p].op = "Store"
          /\ out'[p].in = key
          /\ Store(p, key, << >>))
         => /\ out'[p] = Result("Store", key, "invalid key: cannot store empty value", << >>)
            /\ store' = store
            /\ last' = last
            /\ iowrap' = iowrap
            /\ rand' = rand]_vars

\* C13 witness: a Store of an empty value under a key was refused while the
\* key's object, stored before with a non-empty value, is in the bucket, and
\* the other instance has loaded that value
C13_Witness ==
    \E p, q \in Procs, key \in PayloadKeys :
        /\ p # q
        /\ out[p] = Result("Store", key, "invalid key: cannot store empty value", << >>)
        /\ Exists(store, objName(key))
        /\ Exists(last, objName(key))
        /\ out[q] = Result("Load", key, None, last[objName(key)].value)
        /\ Len(out[q].buf) > 0

\* C14 (as stated): a Load of a key whose object is absent, or is in the
\* bucket with zero length, returns the not-exist condition and no buffer
C14_AbsentOrEmptyObjectIsNotExist ==
    [][\A p \in Procs, key \in PayloadKeys :
         (/\ \/ ~Exists(store, objName(key))
             \/ Len(store[objName(key)]) = 0
          /\ LoadOf(p, key))
         => out'[p] = Result("Load", key, "file does not exist", << >>)]_vars

\* d is the envelope of payload m under key: a nonce followed by what
\* secretbox.Seal makes of m under the key and that nonce
SealedUnder(d, m, key) ==
    /\ Len(d) = NonceSize + Overhead + Len(m)
    /\ \E n \in NonceIds :
         /\ SubSeq(d, 1, NonceSize) = NonceBytes(n)
         /\ d = Seal(NonceBytes(n), m, n, key)

\* d is an envelope of some payload under some valid key
IsEnvelope(d) ==
    \E key \in SecretKeys \ {ZeroKey}, m \in Msgs : SealedUnder(d, m, key)

\* a Load by an instance with the encrypted codec of an object that is not
\* empty succeeds only with the payload the object is the envelope of under
\* the instance's key, and otherwise gives an error and no data
LoadAuthenticates(p, key) ==
    (/\ iowrap[p].kind = "SecretBoxIO"
     /\ Exists(store, objName(key))
     /\ Len(store[objName(key)]) > 0
     /\ LoadOf(p, key))
    => /\ out'[p].err = None
          => SealedUnder(store[objName(key)], out'[p].buf, iowrap[p].SecretKey)
       /\ out'[p].err # None
          => /\ out'[p].buf = << >>
             /\ \A m \in Msgs :
                  ~SealedUnder(store[objName(key)], m, iowrap[p].SecretKey)

\* C15 (as stated): on every instance sharing the bucket, cleartext or
\* encrypted, no Load succeeds with bytes that are an encrypted envelope, and
\* on an encrypted instance bytes that fail authentication under its key give
\* an error and no data
C15_NoInstanceReturnsAnEnvelope ==
    [][\A p \in Procs, key \in PayloadKeys :
         /\ LoadAuthenticates(p, key)
         /\ (LoadOf(p, key) /\ out'[p].err = None) => ~IsEnvelope(out'[p].buf)]_vars

\* C15 (amended): on every instance that uses the encrypted codec, a Load of
\* an object that is not empty succeeds only with the payload authenticated
\* under the instance's key, never with the stored bytes themselves, and
\* stored bytes that fail authentication under that key give an error and no
\* data
C15_EncryptedInstanceReturnsOnlyAuthenticated ==
    [][\A p \in Procs, key \in PayloadKeys : LoadAuthenticates(p, key)]_vars

\* C15 witness: an instance with the encrypted codec has loaded an object
\* that another instance stored under a different key, and got the
\* decryption-failed error and no data
C15_Witness ==
    \E p \in Procs, key \in PayloadKeys :
        /\ iowrap[p].kind = "SecretBoxIO"
        /\ Exists(last, objName(key))
        /\ last[objName(key)].io.kind = "SecretBoxIO"
        /\ last[objName(key)].io # iowrap[p]
        /\ IsEnvelope(store[objName(key)])
        /\ out[p] = Result("Load", key,
                           "decryption failed: invalid key or corrupted data", << >>)

(* ---------------------- properties of the codec ------------------------ *)

\* p's last call was an encode that succeeded
Encoded(p) == out[p].op = "ByteReader" /\ out[p].err = None

\* p's last call was a decode
Decoded(p) == out[p].op = "WrapReader"

\* C16: for a codec with a valid key, decoding the bytes that an encode call
\* under the same key produced for a payload m yields exactly m with no
\* error, for every m, the empty one included
C16_DecodeOfEncodeIsIdentity ==
    \A p, q \in Procs :
        (/\ Decoded(p)
         /\ Encoded(q)
         /\ IsValid(iowrap[p])
         /\ iowrap[q] = iowrap[p]
         /\ out[p].in = out[q].buf)
        => out[p] = Result("WrapReader", out[q].buf, None, out[q].in)

\* C16 witness: one codec encoded the empty payload to an envelope of a nonce
\* and an authenticator, and a codec with the same valid key decoded that
\* envelope to the empty payload with no error
C16_Witness ==
    \E p, q \in Procs :
        /\ p # q
        /\ IsValid(iowrap[p])
        /\ iowrap[q] = iowrap[p]
        /\ Encoded(q)
        /\ out[q].in = << >>
        /\ Len(out[q].buf) = NonceSize + Overhead
        /\ out[p] = Result("WrapReader", out[q].buf, None, << >>)

\* C17: an encode call under a valid key draws a nonce no earlier encode call
\* drew, so its output differs from the output of every earlier encode of the
\* same payload under the same key, and it decodes back to the payload
C17_EncodeDrawsFreshNonce ==
    [][\A p \in Procs :
         (/\ budget'.ops < budget.ops
          /\ out'[p].op = "ByteReader"
          /\ IsValid(iowrap[p])
          /\ Encode(p, out'[p].in))
         => /\ out'[p].err = None
            /\ Len(out'[p].buf) = NonceSize + Overhead + Len(out'[p].in)
            /\ \A n \in rand : SubSeq(out'[p].buf, 1, NonceSize) # NonceBytes(n)
            /\ \A q \in Procs :
                 (Encoded(q) /\ out[q].in = out'[p].in /\ iowrap[q] = iowrap[p])
                 => out'[p].buf # out[q].buf
            /\ ReadAll(DecodeWith(iowrap[p], out'[p].buf))
                 = [buf |-> out'[p].in, err |-> None]]_vars

\* C17 witness: two encode calls on the same payload under the same valid
\* key have given two outputs that differ, and that differ in their nonces
C17_Witness ==
    \E p, q \in Procs :
        /\ p # q
        /\ IsValid(iowrap[p])
        /\ iowrap[q] = iowrap[p]
        /\ Encoded(p) /\ Encoded(q)
        /\ out[p].in = out[q].in
        /\ out[p].buf # out[q].buf
        /\ SubSeq(out[p].buf, 1, NonceSize) # SubSeq(out[q].buf, 1, NonceSize)

\* C18: with a valid key, decoding a stream that is not empty and is shorter
\* than NonceSize bytes fails with the insufficient-data error, decoding a
\* stream of NonceSize bytes or more that is no envelope under the codec's
\* key (an envelope altered, cut short, or sealed under another key) fails
\* with the decryption-failed error, and in both cases no byte is read
\* before the error
C18_DecodeBoundaries ==
    \A p \in Procs :
        (Decoded(p) /\ IsValid(iowrap[p]))
        => LET data == out[p].in
           IN /\ (0 < Len(data) /\ Len(data) < NonceSize)
                 => out[p] = Result("WrapReader", data,
                                    "insufficient data for decryption: missing nonce",
                                    << >>)
              /\ (/\ Len(data) >= NonceSize
                  /\ \A m \in Msgs : ~SealedUnder(data, m, iowrap[p].SecretKey))
                 => out[p] = Result("WrapReader", data,
                                    "decryption failed: invalid key or corrupted data",
                                    << >>)

\* C18 witness: a codec with a valid key was handed an envelope that a codec
\* with another valid key had made, and its decode failed with the
\* decryption-failed error and no bytes
C18_Witness ==
    \E p, q \in Procs :
        /\ IsValid(iowrap[p]) /\ IsValid(iowrap[q])
        /\ iowrap[p] # iowrap[q]
        /\ Encoded(q)
        /\ out[p] = Result("WrapReader", out[q].buf,
                           "decryption failed: invalid key or corrupted data", << >>)

\* C19: on a codec whose key is all zero every encode call and every decode
\* call, whatever its input, the empty one included, fails with the
\* not-properly-initialized error and yields no bytes
C19_ZeroKeyCodecRefuses ==
    \A p \in Procs :
        (~IsValid(iowrap[p]) /\ (Decoded(p) \/ out[p].op = "ByteReader"))
        => /\ out[p].err = "SecretBoxIO not properly initialized"
           /\ out[p].buf = << >>

\* C19 witness: of two codecs with the all-zero key one was asked to encode
\* the empty payload and the other to decode the empty stream, and both
\* calls failed with the not-properly-initialized error and no bytes
C19_Witness ==
    \E p, q \in Procs :
        /\ p # q
        /\ ~IsValid(iowrap[p]) /\ ~IsValid(iowrap[q])
        /\ out[p] = Result("ByteReader", << >>,
                           "SecretBoxIO not properly initialized", << >>)
        /\ out[q] = Result("WrapReader", << >>,
                           "SecretBoxIO not properly initialized", << >>)

\* C20 (as stated): decoding the empty stream with the encrypted codec gives
\* the empty result and no error, for a codec whose key was never set as for
\* a keyed one
C20_EmptyStreamDecodesOnAnyCodec ==
    \A p \in Procs :
        (Decoded(p) /\ out[p].in = << >>)
        => out[p] = Result("WrapReader", << >>, None, << >>)

\* C20 (amended): decoding the empty stream with an encrypted codec whose key
\* is valid gives the empty result and no error
C20_EmptyStreamDecodesOnKeyedCodec ==
    \A p \in Procs :
        (Decoded(p) /\ out[p].in = << >> /\ IsValid(iowrap[p]))
        => out[p] = Result("WrapReader", << >>, None, << >>)

\* C20 witness: a codec with a valid key has decoded the empty stream to the
\* empty result with no error
C20_Witness ==
    \E p \in Procs :
        /\ IsValid(iowrap[p])
        /\ out[p] = Result("WrapReader", << >>, None, << >>)


(* ---------------------- properties of object names --------------------- *)

\* C25 (as stated): for every prefix and key the object name is the prefix
\* and the key, each with its leading and trailing separators stripped,
\* joined by one separator, or the stripped key alone where the stripped
\* prefix is empty; and the lease name is that followed by ".lock"
C25_ObjNameTrimsPrefixAndKey ==
    \A p \in Procs :
        out[p].op = "objName"
        => LET configured == out[p].in[1]
               key == out[p].in[2]
               name == IF Trim(configured) = << >> THEN Trim(key)
                       ELSE Trim(configured) \o <<"/">> \o Trim(key)
           IN /\ out[p].buf = name
              /\ out[p].lock = name \o <<".", "l", "o", "c", "k">>


(* ---------------------- properties of construction --------------------- *)

\* the step is p's Provision
Provisions(p) == out[p] = NoResult /\ out'[p].op = "Provision"

\* C21: a Provision whose client is built selects the cleartext codec for an
\* empty key and the encrypted codec holding exactly the key's bytes for a
\* key of KeySize bytes, and for a key of any other length returns the
\* key-length error and sets no codec; a codec once set never changes, and
\* no Store or Load returns the key-length error
C21_CodecSelectedAtConstruction ==
    [][\A p \in Procs :
         /\ (Provisions(p) /\ out'[p].err # "failed to create S3 client")
            => LET key == out'[p].in
               IN /\ Len(key) = 0
                     => out'[p].err = None /\ iowrap'[p] = CleartextIO
                  /\ Len(key) = KeySize
                     => /\ out'[p].err = None
                        /\ iowrap'[p].kind = "SecretBoxIO"
                        /\ SecretKeyBytes(iowrap'[p].SecretKey) = key
                  /\ Len(key) \notin {0, KeySize}
                     => /\ out'[p].err = "encryption key must have exactly 32 bytes"
                        /\ iowrap'[p] = NoCodec
         /\ iowrap[p] # NoCodec => iowrap'[p] = iowrap[p]
         /\ out'[p].op \in {"Store", "Load"}
            => out'[p].err # "encryption key must have exactly 32 bytes"]_vars

\* C21 witness: one facade was refused a key a byte short of KeySize and has
\* no codec, and the other, given a key of KeySize bytes, holds those bytes
\* in the encrypted codec and has loaded a value it stored
C21_Witness ==
    \E p, q \in Procs :
        /\ out[p].op = "Provision"
        /\ Len(out[p].in) = KeySize - 1
        /\ out[p].err = "encryption key must have exactly 32 bytes"
        /\ iowrap[p] = NoCodec
        /\ iowrap[q].kind = "SecretBoxIO"
        /\ IsValid(iowrap[q])
        /\ out[q].op = "Load" /\ out[q].err = None /\ Len(out[q].buf) > 0


(* ----------------- properties of Exists, List and Stat ----------------- *)

\* what C22 requires of List: the logical keys of the payload objects under
\* a requested prefix, which are the objects of the bucket under the prefix's
\* object name that are no leases, the configured prefix taken off their
\* names.  It is the statement's side of C22, and no List of the sources
LogicalKeysUnder(prefix) ==
    {TrimPrefix(name, objName(<< >>)) :
       name \in {n \in DOMAIN store :
                   /\ HasPrefix(n, objName(prefix))
                   /\ ~HasSuffix(n, <<".", "l", "o", "c", "k">>)}}

\* C22: a List whose listing succeeds returns exactly the logical keys of
\* the payload objects under the requested prefix: no lease object, no
\* configured prefix on a returned key, no key outside the requested prefix
C22_ListReturnsLogicalKeys ==
    [][\A p \in Procs, prefix \in ListPrefixes, recursive \in BOOLEAN :
         (/\ out'[p].op = "List"
          /\ out'[p].err = None
          /\ S3List(p, prefix, recursive))
         => out'[p].val = LogicalKeysUnder(prefix)]_vars


\* C23: with HeadObject answering, Exists returns whether the object is
\* there and no error, and Stat returns not-exist for an object that is not
\* there and, for one that is, the logical key, the stored size, the time of
\* the last write and IsTerminal
C23_ExistsAndStatTellAbsentFromPresent ==
    [][\A p \in Procs, key \in DirKeys :
         /\ (/\ out'[p].op = "Exists"
             /\ out'[p].sdk # TransportError
             /\ S3Exists(p, key))
            => /\ out'[p].err = None
               /\ out'[p].val = Exists(store, objName(key))
         /\ (/\ out'[p].op = "Stat"
             /\ out'[p].sdk # TransportError
             /\ S3Stat(p, key))
            => IF Exists(store, objName(key))
                 THEN /\ out'[p].err = None
                      /\ out'[p].val = [Key |-> key,
                                        Size |-> Len(store[objName(key)]),
                                        Modified |-> LastModified(objName(key)),
                                        IsTerminal |-> TRUE]
                 ELSE out'[p].err = "file does not exist"]_vars

\* C24: a call whose object store call failed with a transport error
\* returns an error: never "false", "absent" or a result
C24_TransportErrorIsReturned ==
    \A p \in Procs :
        (out[p].op \in {"Exists", "Stat", "List", "Load", "Store", "Delete"}
         /\ "sdk" \in DOMAIN out[p]
         /\ out[p].sdk = TransportError)
        => out[p].err \notin {None, "file does not exist"}


(* --------------------- properties of configuration --------------------- *)

\* the value the last directive of a key gives it, among the directives the
\* loop took of the tokens up to the i-th, or the empty string
RECURSIVE LastValue(_, _, _)
LastValue(tokens, key, i) ==
    IF i < 2 THEN ""
    ELSE IF tokens[i - 1].text = key THEN tokens[i].text
    ELSE LastValue(tokens, key, i - 2)

\* C26: a block that is parsed without error leaves path-style addressing
\* on, and the client built with it, if the block names an endpoint or a
\* host, whatever it says of use_path_style; a block that names neither
\* leaves it as the block's last use_path_style has it, off if it has none.
\* The blocks parsed without error are Dispensers that hold option lines: a
\* segment that begins with the module's name and the opening brace is
\* refused at the first d.Args with no field set
C26_CustomEndpointForcesPathStyle ==
    \A p \in Procs :
        /\ (out[p].op = "UnmarshalCaddyfile" /\ out[p].err = None)
           => LET tokens == Tokens(out[p].in, 1)
                  n == Len(tokens)
                  custom == \/ LastValue(tokens, "endpoint", n) # ""
                            \/ LastValue(tokens, "host", n) # ""
                  asked == parseBool(LastValue(tokens, "use_path_style", n)).parsed
              IN /\ out[p].client.UsePathStyle = out[p].s3.UsePathStyle
                 /\ custom => out[p].s3.UsePathStyle
                 /\ ~custom => (out[p].s3.UsePathStyle <=> asked)
                 /\ custom <=> out[p].client.BaseEndpoint # ""
        /\ ( /\ out[p].op = "UnmarshalCaddyfile"
             /\ Len(out[p].in) > 0
             /\ out[p].in[1] = Segment(<< >>)[1] )
           => /\ out[p].err = ArgErr("s3")
              /\ out[p].s3 = NewS3

\* C26 witness: option lines that name the deprecated host and turn
\* use_path_style off were parsed without error, and the client is built
\* path-style at the endpoint made of the host
C26_Witness ==
    \E p \in Procs :
        /\ out[p].op = "UnmarshalCaddyfile" /\ out[p].err = None
        /\ out[p].in[1][1] # "s3"
        /\ LastValue(Tokens(out[p].in, 1), "host", Len(Tokens(out[p].in, 1))) # ""
        /\ LastValue(Tokens(out[p].in, 1), "use_path_style",
                     Len(Tokens(out[p].in, 1))) = "false"
        /\ out[p].s3.Host = "minio.example.com"
        /\ out[p].client.BaseEndpoint = "https://minio.example.com"
        /\ out[p].client.UsePathStyle


(* -------------------- further properties of Lock ----------------------- *)

\* C28: every iteration of Lock's loop, whatever its read gave, ends in the
\* call returning (at once, or with its lease write) or in a sleep of
\* LockPollInterval before the next read, so that a call makes no more
\* reads than its LockTimeout has poll intervals
C28_EveryIterationSleepsOrReturns ==
    [][\A p \in Procs :
         (IterationOf(p) \/ ReadFailed(p))
         => \/ pc'[p] \in {"put", "idle"}
            \/ pc'[p] = "sleep" /\ timer'[p] = now + LockPollInterval]_vars


\* C29: a Lock call returns success only in the step in which the lease
\* write it issued lands, the lease then being the one it wrote; and a call
\* whose lease write fails returns the write's error and is not told it
\* holds the lock
C29_SuccessOnlyWithOwnLeaseWritten ==
    [][\A p \in Procs :
         /\ (pc[p] # "idle" /\ res'[p] = "ok")
            => /\ pc[p] = "put" /\ pc'[p] = "idle"
               /\ budget' = budget
               /\ Exists(store', Lease)
               /\ store'[Lease] = lockData[p]
               /\ lastWriter' = p
         /\ (pc[p] = "put" /\ pc'[p] = "idle" /\ budget'.faults < budget.faults)
            => /\ res'[p] = "puterr"
               /\ held'[p] = held[p]]_vars

\* C29 witness: one call's lease write failed and the call returned the
\* error without holding the lock, no lease being there; another call then
\* wrote the lease and returned success
C29_Witness ==
    \E p, q \in Procs :
        /\ p # q
        /\ pc[p] = "idle" /\ res[p] = "puterr" /\ ~held[p]
        /\ pc[q] = "idle" /\ res[q] = "ok" /\ held[q]
        /\ lastWriter = q
        /\ Exists(store, Lease)


\* the step is one of p's running Lock call
StepOfCall(p) ==
    /\ pc[p] # "idle"
    /\ pc'[p] # pc[p] \/ timer'[p] # timer[p] \/ retry'[p] # retry[p]

\* C30: the only step of a Lock call that changes the bucket is the landing
\* of its lease write, with which the call returns success: every other
\* step of the call, the one that returns the acquisition-failed error
\* among them, leaves every object as it is, so a call that has returned
\* acquisition-failed has written and deleted nothing
C30_FailedAcquisitionTouchesNothing ==
    [][\A p \in Procs :
         /\ (StepOfCall(p) /\ res'[p] # "ok")
            => /\ store' = store
               /\ lastWriter' = lastWriter
               /\ writtenAt' = writtenAt
               /\ removed' = removed
         /\ (StepOfCall(p) /\ res'[p] = "ok") => pc'[p] = "idle"
         /\ (pc[p] # "idle" /\ res'[p] = "timeout")
            => /\ StepOfCall(p)
               /\ pc'[p] = "idle"
               /\ Exists(store', Lease)]_vars

\* C30 witness: a call has returned the acquisition-failed error, and the
\* lease it waited on is there as its writer, who still holds the lock,
\* left it
C30_Witness ==
    \E p, q \in Procs :
        /\ p # q
        /\ pc[p] = "idle" /\ res[p] = "timeout"
        /\ lastWriter = q /\ held[q]
        /\ Exists(store, Lease)
        /\ ParseOk(store[Lease])
        /\ ParseTime(store[Lease]) <= writtenAt


C31_PayloadAndLeaseObjectsApart ==
    [][/\ GetObject(store', Lease) # GetObject(store, Lease)
          => (Unlocking \/ \E p \in Procs : Landing(p))
       /\ \A p \in Procs :
            Landing(p)
            => \A o \in DOMAIN store \ {Lease} :
                  o \in DOMAIN store' /\ store'[o] = store[o]]_vars


\* C32 (as stated): a Lock call waits or gives up only on a lease that a
\* Lock call with the same key, as a string, wrote; and a lease write that
\* lands and an Unlock leave every lease written under another key, as a
\* string, as it is
C32_DifferentKeyStringsIndependent ==
    [][\A p \in Procs :
         /\ (out[p].op = "Lock" /\ IterationOf(p) /\ pc'[p] # "put")
            => /\ pc[p] = "read"
               /\ out[p].from = out[p].in
         /\ (out[p].op = "Lock" /\ Landing(p))
            => \A n \in DOMAIN last :
                  last[n].key # out[p].in
                  => Exists(store', n) /\ store'[n] = store[n]
         /\ \A k \in LockKeys :
              UnlockOn(p, k)
              => \A n \in DOMAIN last :
                    last[n].key # k
                    => Exists(store', n) /\ store'[n] = store[n]]_vars

\* C32: a Lock call whose key's lease object is not there is answered
\* NoSuchKey whatever other leases there are, and goes on to write; it waits or gives up only on
\* a lease written under a key that is its own once the leading separators
\* are taken off; and a lease write that lands and an Unlock leave the
\* lease of every key that differs from theirs in more than leading
\* separators as it is
C32_DifferentObjectNamesIndependent ==
    [][\A p \in Procs :
         /\ (out[p].op = "Lock" /\ AtGetObject(p) /\ pc'[p] # pc[p]
             /\ ~Exists(store, objLockName(out[p].in)))
            => pc'[p] = "nokey"
         /\ (out[p].op = "Lock" /\ pc[p] = "nokey") => pc'[p] \in {"nokey", "put"}
         /\ (out[p].op = "Lock" /\ IterationOf(p) /\ pc'[p] # "put")
            => /\ pc[p] = "read"
               /\ TrimLeft(out[p].from) = TrimLeft(out[p].in)
         /\ (out[p].op = "Lock" /\ Landing(p))
            => \A n \in DOMAIN last :
                  TrimLeft(last[n].key) # TrimLeft(out[p].in)
                  => Exists(store', n) /\ store'[n] = store[n]
         /\ \A k \in LockKeys :
              UnlockOn(p, k)
              => \A n \in DOMAIN last :
                    TrimLeft(last[n].key) # TrimLeft(k)
                    => Exists(store', n) /\ store'[n] = store[n]]_vars

\* C32 witness: a live lease on key "a" is there, and a call on key "b"
\* that began with it in place found no lease of its own key and has
\* written one and returned success
C32_Witness ==
    \E n, m \in DOMAIN last :
        /\ last[n].key = <<"a">>
        /\ last[m].key = <<"b">>
        /\ last[n].at <= last[m].at
        /\ Exists(store, n) /\ Looks(store[n], now) = "live"
        /\ Exists(store, m)
        /\ \E q \in Procs :
             /\ last[m].by = q
             /\ out[q] = Result("Lock", <<"b">>, None, << >>)
             /\ pc[q] = "idle" /\ res[q] = "ok"
             /\ obs[q] = "absent"


(* ------------------ properties of the lease's timestamp ---------------- *)

\* C33: the timestamp in a lease is the time of the write that wrote it,
\* and an iteration of Lock overwrites a lease it could parse only when at
\* least LockTimeout has passed since that write
C33_LeaseStaleOnlyAfterTimeoutSinceWrite ==
    [][/\ (Exists(store', Lease) /\ ParseOk(store'[Lease]))
          => ParseTime(store'[Lease]) = writtenAt'
       /\ \A p \in Procs :
            (/\ IterationOf(p)
             /\ pc'[p] = "put"
             /\ pc[p] = "read"
             /\ ParseOk(out[p].buf))
            => now - out[p].at >= LockTimeout]_vars

(* ---------------------- the bodies GetObject opens --------------------- *)

\* the keys Load is called with
StreamKeys == {<<"c">>}

\* the buckets the calls find: an empty one, one with a payload that a
\* cleartext facade stored, and one with that payload and a lease of zero
\* length that another writer put there
StreamBuckets ==
    LET payload == PutObject(<< >>, objName(<<"c">>), ReadAll(EncodeWith(CleartextIO, 0, <<0>>)).buf)
    IN {<< >>, payload, PutObject(payload, Lease, << >>)}

\* the codec the facades are provisioned with: cleartext, or one 32-byte key
StreamCodecs == {CleartextIO, SecretBoxIO(MaxKey)}

\* Load whose GetObject answers NoSuchKey: fs.ErrNotExist, no body
LoadNoSuchKey(p, key) ==
    /\ ~Exists(store, objName(key))
    /\ now <= MaxStreamStart
    /\ Load(p, key)

\* Load whose GetObject succeeds: result.Body is open and its Close deferred
LoadGetObject(p, key) ==
    /\ pc[p] = "idle"
    /\ budget.ops > 0
    /\ now <= MaxStreamStart
    /\ Exists(store, objName(key))
    /\ budget' = [budget EXCEPT !.ops = @ - 1]
    /\ pc' = [pc EXCEPT ![p] = "load"]
    /\ out' = [out EXCEPT ![p] =
                  Stream("Load", key, None, store[objName(key)], OpenBodies(p) + 1)]
    /\ UNCHANGED <<now, store, startedAt, timer, lockData, ctxDone, res, ures,
                   obs, retry, held, lastWriter, writtenAt, removed, after,
                   iowrap, rand, last>>

\* Load's io.ReadAll over the wrapped body fails in the transport: Load
\* returns the error and the deferred Close runs
LoadReadAllFails(p) ==
    /\ pc[p] = "load"
    /\ budget.faults > 0
    /\ budget' = [budget EXCEPT !.faults = @ - 1]
    /\ out' = [out EXCEPT ![p] =
                  Stream("Load", out[p].in, "failed to read/decrypt data", << >>,
                         OpenBodies(p) - 1)]
    /\ pc' = [pc EXCEPT ![p] = "idle"]
    /\ UNCHANGED <<now, store, startedAt, timer, lockData, ctxDone, res, ures,
                   obs, retry, held, lastWriter, writtenAt, removed, after,
                   iowrap, rand, last>>

\* Load's io.ReadAll over the wrapped body: Load returns what the codec makes
\* of the body, or the codec's error, and the deferred Close runs
LoadReadAll(p) ==
    /\ pc[p] = "load"
    /\ LET buf == ReadAll(DecodeWith(iowrap[p], out[p].buf))
       IN out' = [out EXCEPT ![p] =
                     IF buf.err # None
                       THEN Stream("Load", out[p].in, buf.err, << >>,
                                   OpenBodies(p) - 1)
                       ELSE Stream("Load", out[p].in, None, buf.buf,
                                   OpenBodies(p) - 1)]
    /\ pc' = [pc EXCEPT ![p] = "idle"]
    /\ UNCHANGED <<now, store, startedAt, timer, lockData, ctxDone, res, ures,
                   budget, obs, retry, held, lastWriter, writtenAt, removed, after,
                   iowrap, rand, last>>

\* Lock and Load calls followed body by body, over a store that may fail,
\* by callers that may cancel
InitStreams ==
    /\ now = 0
    /\ store \in StreamBuckets
    /\ pc = [p \in Procs |-> "idle"]
    /\ startedAt = [p \in Procs |-> 0]
    /\ timer = [p \in Procs |-> 0]
    /\ lockData = [p \in Procs |-> << >>]
    /\ ctxDone = [p \in Procs |-> FALSE]
    /\ res = [p \in Procs |-> None]
    /\ ures = [p \in Procs |-> None]
    /\ obs = [p \in Procs |-> None]
    /\ retry = [p \in Procs |-> 0]
    /\ held = [p \in Procs |-> FALSE]
    /\ lastWriter = None
    /\ writtenAt = 0
    /\ removed = None
    /\ after = [p \in Procs |-> {}]
    /\ out = [p \in Procs |-> NoResult]
    /\ rand = {}
    /\ last = << >>
    /\ iowrap \in {[p \in Procs |-> io] : io \in StreamCodecs}
    /\ budget = [calls |-> MaxStreamCalls, unlocks |-> 0, faults |-> MaxStreamFaults,
                 cancels |-> MaxStreamCancels, stores |-> 0, ops |-> MaxStreamLoads]

NextStreams ==
    \/ \E p \in Procs : LockCall(p)
    \/ \E p \in Procs : LockGetObjectNoSuchKey(p)
    \/ \E p \in Procs : LockNoSuchKey(p)
    \/ \E p \in Procs : LockGetObject(p)
    \/ \E p \in Procs : LockReadAll(p)
    \/ \E p \in Procs : LockReadAllFails(p)
    \/ \E p \in Procs : GetObjectFails(p)
    \/ \E p \in Procs : putLockFile(p)
    \/ \E p \in Procs : putLockFileFails(p)
    \/ \E p \in Procs : Cancel(p)
    \/ \E p \in Procs, k \in StreamKeys : LoadNoSuchKey(p, k)
    \/ \E p \in Procs, k \in StreamKeys : LoadGetObject(p, k)
    \/ \E p \in Procs : LoadReadAll(p)
    \/ \E p \in Procs : LoadReadAllFails(p)
    \/ Tick

SpecStreams == InitStreams /\ [][NextStreams]_vars

\* C34: every body that Lock or Load has open is closed when the call
\* returns, whether it succeeds, fails to parse, fails to read, times out or
\* is cancelled, and Lock closes the body of one iteration before the next
\* iteration's GetObject: a caller has a body open only between a GetObject
\* that succeeded and the read that follows it, and then exactly one
C34_NoStreamLeftOpen ==
    \A p \in Procs :
        /\ pc[p] \in {"read", "load"} => OpenBodies(p) = 1
        /\ pc[p] \notin {"read", "load"} => OpenBodies(p) = 0

\* C34 witness: a Lock call has read a live lease and sleeps with the body
\* closed, and a Load has read a body, returned a decoding error and closed
\* the body
C34_Witness ==
    \E p, q \in Procs :
        /\ pc[p] = "sleep" /\ out[p].op = "Lock"
        /\ "open" \in DOMAIN out[p] /\ out[p].open = 0
        /\ pc[q] = "idle" /\ out[q].op = "Load"
        /\ "open" \in DOMAIN out[q] /\ out[q].open = 0
        /\ out[q].err # None

\* C35: under a valid key, ByteReader(m) yields the NonceSize bytes of the
\* nonce followed by the sealed payload, its Len() is the number of bytes it
\* yields, NonceSize + len(m) + Overhead, which is at least NonceSize for
\* every m, and what follows the nonce is not empty when m is not
C35_EnvelopeIsNonceThenBoxOfReportedLength ==
    \A p \in Procs :
        (Encoded(p) /\ IsValid(iowrap[p]))
        => LET buf == out[p].buf
               m == out[p].in
           IN /\ Len(buf) >= NonceSize
              /\ buf[1] \in NonceIds
              /\ SubSeq(buf, 1, NonceSize) = NonceBytes(buf[1])
              /\ LET r == EncodeWith(iowrap[p], buf[1], m)
                     body == SubSeq(buf, NonceSize + 1, Len(buf))
                 IN /\ r.err = None
                    /\ r.r = buf
                    /\ r.l = Len(buf)
                    /\ r.l = NonceSize + Len(m) + Overhead
                    /\ r.l >= NonceSize
                    /\ body = Seal(<< >>, m, buf[1], iowrap[p].SecretKey)
                    /\ Len(m) > 0 => Len(body) > 0

\* C35 witness: a codec with a valid key has encoded a payload of MaxLen
\* bytes to an envelope of NonceSize + MaxLen + Overhead bytes, and one has
\* encoded the empty payload to an envelope of NonceSize + Overhead bytes
C35_Witness ==
    \E p, q \in Procs :
        /\ Encoded(p) /\ IsValid(iowrap[p])
        /\ Len(out[p].in) = MaxLen
        /\ EncodeWith(iowrap[p], out[p].buf[1], out[p].in).l
             = NonceSize + MaxLen + Overhead
        /\ Encoded(q) /\ IsValid(iowrap[q])
        /\ Len(out[q].in) = 0
        /\ EncodeWith(iowrap[q], out[q].buf[1], out[q].in).l = NonceSize + Overhead

(* ------------------------- reading a Reader ---------------------------- *)

\* calls made on Readers, and the longest buffer Read is handed
MaxReaderOps == 3
MaxBuf == 2

\* io.EOF
EOF == "EOF"

\* the Reader the codec built as Read and Seek see it: the bytes of the
\* underlying reader r and the position in them, whether r is nil (the codec
\* builds every Reader that carries an error with a nil r, and no other),
\* the length l and the pending error
ReaderOf(rd) ==
    [r |-> rd.r, isNil |-> rd.err # None, pos |-> 0, l |-> rd.l, err |-> rd.err]

\* what a call on a Reader gave: n bytes in buf and err returned, or a
\* panic (a nil pointer dereferenced), and the Reader after the call
Called(op, rd, buf, err, panic) ==
    [op |-> op, in |-> << >>, err |-> err, buf |-> buf, rd |-> rd, panic |-> panic]

\* Reader.Read(buf) with len(buf) = n: a pending error is returned with no
\* bytes and forgotten; otherwise r.r.Read(buf), which dereferences r.r
Read(rd, n) ==
    IF rd.err # None
      THEN Called("Read", [rd EXCEPT !.err = None], << >>, rd.err, FALSE)
    ELSE IF rd.isNil
      THEN Called("Read", rd, << >>, None, TRUE)
    ELSE IF rd.pos >= Len(rd.r)
      THEN Called("Read", rd, << >>, EOF, FALSE)
    ELSE LET m == IF n < Len(rd.r) - rd.pos THEN n ELSE Len(rd.r) - rd.pos
         IN Called("Read", [rd EXCEPT !.pos = @ + m],
                   SubSeq(rd.r, rd.pos + 1, rd.pos + m), None, FALSE)

\* Reader.Seek(0, io.SeekStart): a pending error is returned and kept;
\* otherwise r.r.Seek, which dereferences r.r
Seek(rd) ==
    IF rd.err # None
      THEN Called("Seek", rd, << >>, rd.err, FALSE)
    ELSE IF rd.isNil
      THEN Called("Seek", rd, << >>, None, TRUE)
    ELSE Called("Seek", [rd EXCEPT !.pos = 0], << >>, None, FALSE)

\* caller p holds a Reader, and no call on it has panicked
HoldsReader(p) == "rd" \in DOMAIN out[p] /\ ~out[p].panic

\* caller p takes the Reader of its codec's WrapReader over a stream
TakeWrapReader(p) ==
    /\ budget.ops > 0
    /\ budget' = [budget EXCEPT !.ops = @ - 1]
    /\ \E data \in {<< >>, <<0>>, [i \in 1 .. NonceSize |-> 0]} :
         out' = [out EXCEPT ![p] =
                    Called("WrapReader", ReaderOf(DecodeWith(iowrap[p], data)),
                           << >>, None, FALSE)]
    /\ UNCHANGED <<now, store, pc, startedAt, timer, lockData, ctxDone, res, ures,
                   obs, retry, held, lastWriter, writtenAt, removed, after,
                   iowrap, rand, last>>

\* caller p takes the Reader of its codec's ByteReader over a payload
TakeByteReader(p, msg) ==
    /\ budget.ops > 0
    /\ budget' = [budget EXCEPT !.ops = @ - 1]
    /\ \E n \in Draws(iowrap[p]) :
         /\ out' = [out EXCEPT ![p] =
                       Called("ByteReader", ReaderOf(EncodeWith(iowrap[p], n, msg)),
                              << >>, None, FALSE)]
         /\ rand' = IF DrawsNonce(iowrap[p]) THEN rand \cup {n} ELSE rand
    /\ UNCHANGED <<now, store, pc, startedAt, timer, lockData, ctxDone, res, ures,
                   obs, retry, held, lastWriter, writtenAt, removed, after,
                   iowrap, last>>

\* caller p reads from the Reader it holds into a buffer of n bytes
ReaderRead(p, n) ==
    /\ HoldsReader(p)
    /\ budget.ops > 0
    /\ budget' = [budget EXCEPT !.ops = @ - 1]
    /\ out' = [out EXCEPT ![p] = Read(out[p].rd, n)]
    /\ UNCHANGED <<now, store, pc, startedAt, timer, lockData, ctxDone, res, ures,
                   obs, retry, held, lastWriter, writtenAt, removed, after,
                   iowrap, rand, last>>

\* caller p rewinds the Reader it holds
ReaderSeek(p) ==
    /\ HoldsReader(p)
    /\ budget.ops > 0
    /\ budget' = [budget EXCEPT !.ops = @ - 1]
    /\ out' = [out EXCEPT ![p] = Seek(out[p].rd)]
    /\ UNCHANGED <<now, store, pc, startedAt, timer, lockData, ctxDone, res, ures,
                   obs, retry, held, lastWriter, writtenAt, removed, after,
                   iowrap, rand, last>>

\* codecs with every key, the all-zero one included, whose Readers are read
\* call by call
InitReader ==
    /\ InitProcs
    /\ iowrap \in [Procs -> {SecretBoxIO(k) : k \in SecretKeys}]
    /\ budget = [calls |-> 0, unlocks |-> 0, faults |-> 0, cancels |-> 0,
                 stores |-> 0, ops |-> MaxReaderOps]

NextReader ==
    \/ \E p \in Procs : TakeWrapReader(p)
    \/ \E p \in Procs, m \in Msgs : TakeByteReader(p, m)
    \/ \E p \in Procs, n \in 1 .. MaxBuf : ReaderRead(p, n)
    \/ \E p \in Procs : ReaderSeek(p)

SpecReader == InitReader /\ [][NextReader]_vars

\* C36: a Reader that carries a pending error yields that error and no bytes
\* on Read, never yields data, and a Read after the error was reported once
\* returns an error or the end of the stream and does not dereference the
\* underlying reader it lacks
C36_ErrorReaderFailsSafelyOnEveryRead ==
    [][\A p \in Procs :
         (/\ HoldsReader(p)
          /\ out[p].rd.isNil
          /\ \E n \in 1 .. MaxBuf : ReaderRead(p, n))
         => /\ ~out'[p].panic
            /\ out'[p].err # None
            /\ out'[p].buf = << >>
            /\ out[p].rd.err # None => out'[p].err = out[p].rd.err]_vars

====
